---- MODULE Spec2Model ----
(***************************************************************************)
(* A model of the qiniu go-sdk core: the request pipeline driven by        *)
(* Request.Send (qiniu/request, qiniu/corehandlers, qiniu/client) and the  *)
(* multipart upload engine of service/kodo.                                *)
(*                                                                         *)
(* Spec       : one Request, from request.New to the return of Send.       *)
(* SpecUpload : successive multipart uploads of one source file.           *)
(* SpecRoundRobin : RoundRobinSelector called by several threads.          *)
(* SpecGetSelector : the choice of the upload host selector.               *)
(* SpecSelector : the error-frequency Selector.                            *)
(* SpecCredentials : the credentials cache, read by several threads.       *)
(* SpecContentLength : the content length handler of the Sign stage.       *)
(* SpecHandlers : a handler list of a client and of one Request.           *)
(* SpecSign : the two request-signing schemes and the request body.        *)
(***************************************************************************)
EXTENDS Integers, Sequences, FiniteSets, TLC

(***************************************************************************)
(* Bounds of the model.                                                    *)
(***************************************************************************)
MaxRetriesBound == 2    \* DefaultRetryer.NumMaxRetries ranges over 0..MaxRetriesBound
MaxBodyLen == 2         \* request bodies hold 0..MaxBodyLen bytes
MaxSourceLen == 4       \* upload sources hold 0..MaxSourceLen bytes
PartSize == 2           \* multipartUploader.partSize, DefaultUploadPartSize scaled down
MaxUploads == 3         \* successive upload calls on the same source file
MaxClock == 2           \* file modification times range over 1..MaxClock
MaxConcurrency == 2     \* UploadInput.Concurrency ranges over 0..MaxConcurrency
MaxStoreNumber == 1     \* Config.StoreNumber ranges over 0..MaxStoreNumber
MaxHosts == 2           \* selectors are configured with 1..MaxHosts hosts
MaxThreads == 3         \* threads calling a selector
MaxSelects == 3         \* Select calls made on the round-robin selector
MaxTicks == 2           \* time.Now() ranges over 0..MaxTicks ticks
TicksPerSecond == 2     \* ticks in one second
MaxUpdates == 11        \* failures reported to a Selector
MaxRetrieves == 3       \* calls of Provider.Retrieve
MaxHandlers == 2        \* the template list starts with 0..MaxHandlers handlers
MaxMutations == 2       \* changes made to the template list
MaxSignLen == 2         \* bytes in the body of a request that is signed

VARIABLES
    \* ---- request.Request (qiniu/request/request.go) ----
    pc,            \* position of Send: new, attempt, roundtrip, classify, sleep, done, panicked
    Error,         \* Request.Error
    Retryable,     \* Request.Retryable: "nil", "true" or "false"
    RetryCount,    \* Request.RetryCount
    maxRetries,    \* Retryer.MaxRetries()
    enforce,       \* Config.EnforceShouldRetryCheck
    capture,       \* the request carries WithGetResponseHeader / WithGetResponseStatusCode
    HTTPResponse,  \* Request.HTTPResponse: [present, status, closed]
    built,         \* Request.built
    method,        \* HTTPRequest.Method
    Body,          \* Request.Body, the underlying reader: [seekable, hasLen, size, pos]
    BodyStart,     \* Request.BodyStart
    httpBody,      \* HTTPRequest.Body: "NoBody" or "safeBody"
    ctxDone,       \* the request context is cancelled
    timerFired,    \* the timer of SleepWithContext has expired
    rt,            \* what the HTTP client returned for the attempt in flight
    retErr,        \* the value returned by Send
    \* ---- observation of the run ----
    attempts,      \* number of times the Send stage was invoked
    completeRuns,  \* number of times the Complete stage was run
    lastErr,       \* Request.Error at the end of the last sendRequest
    cancelAt,      \* pc at which the context was cancelled
    setOffset,     \* offset of the reader when SetReaderBody recorded it
    prevRead,      \* offset at which the previous attempt stopped reading
    httpStart,     \* offset of the body at which the HTTP body of the attempt begins
    \* ---- multipart upload (service/kodo) ----
    upc,              \* position of upload: idle, init, loop, dispatch, part, join, complete, done
    uploads,          \* number of upload calls made so far
    viaContext,       \* the upload was started by UploadMultipartContext
    srcSize,          \* bytes in the source
    srcModTime,       \* modification time of the source file
    srcSeekable,      \* the source is an io.ReadSeeker
    fileSource,       \* UploadInput.Filename is set
    srcPos,           \* read offset of UploadInput.Data
    disableResume,    \* Config.DisableResume
    cfgStoreNumber,   \* Config.StoreNumber
    Concurrency,      \* UploadInput.Concurrency, the capacity of limitC
    sidecar,          \* the resume file: [exists, uploadID, parts, lastMod, mtime]
    clock,            \* the time, for file modification times
    UploadID,         \* resumeRecorder.UploadID, 0 for the empty string
    Parts,            \* resumeRecorder.Parts
    LastModification, \* resumeRecorder.LastModification, 0 for the zero time
    readPos,          \* multipartUploader.readPos
    lastIndex,        \* multipartUploader.lastIndex
    uerr,             \* multipartUploader.err
    statusCode,       \* multipartUploader.statusCode
    limitC,           \* number of slots held in limitC
    wg,               \* counter of the WaitGroup
    tasks,            \* the uploadPart calls that are running
    cur,              \* the part returned by the last nextPart
    eof,              \* nextPart reported io.EOF
    uctxDone,         \* the context of the upload is cancelled
    nextID,           \* upload ids handed out by the server so far
    completeSent,     \* a Complete request was sent by the current upload
    completeParts,    \* the parts list of that Complete request
    result            \* what the upload returned: its error and whether it is wrapped

VARIABLES
    \* ---- request.Request, the runs of its handler lists ----
    validateRuns,  \* times Handlers.Validate.Run was called on the request
    buildRuns,     \* times Handlers.Build.Run was called on the request
    tokenType,     \* API.TokenType: the token handler Kodo.newRequest pushed to the Sign list
    authValues     \* number of values of the Authorization header of HTTPRequest

buildVars == <<validateRuns, buildRuns, tokenType>>

VARIABLES
    \* ---- RoundRobinSelector (service/kodo, types) ----
    nHosts,        \* len(hosts); the hosts are hosts[0] .. hosts[nHosts-1]
    rrLastIndex,   \* RoundRobinSelector.lastIndex
    rrMu,          \* RoundRobinSelector.mu: the thread holding it, 0 when free
    rrPc,          \* per thread: position inside Select / IsEOF
    rrOut,         \* the hosts returned by Select so far, in order
    rrEOF          \* per thread: what its last own call of IsEOF returned

rrVars == <<nHosts, rrLastIndex, rrMu, rrPc, rrOut, rrEOF>>

VARIABLES
    \* ---- getSelector (service/kodo/upload_form.go) ----
    gsIn,          \* the arguments: upHosts, sel, region, and what v3/query would answer
    gsOut          \* the selector returned, or the error

gsVars == <<gsIn, gsOut>>

VARIABLES
    \* ---- Selector (service/kodo, types) ----
    selN,          \* number of hosts given to NewSelector: hosts 1..selN
    errs,          \* host.errs: per host, the times of its recorded failures
    now,           \* time.Now(), in ticks
    updates,       \* calls of Update made so far
    selected       \* what the last Select returned: 0 none yet, a host, -1 a nil dereference

selVars == <<selN, errs, now, updates, selected>>

VARIABLES
    \* ---- credentials.Credentials (qiniu/credentials/credentials.go) ----
    credValue,     \* Credentials.Value: 0 the empty Value, k the k-th Value retrieved
    forceRefresh,  \* Credentials.forceRefresh
    provExpired,   \* what provider.IsExpired() answers
    retrieves,     \* calls of provider.Retrieve() made so far
    credPc,        \* per thread: idle, or slow (between RUnlock and Lock in Get)
    got,           \* per thread: what its last Get returned
    cached,         \* a Get has succeeded and Expire was not called since
    epoch          \* outcomes of the Retrieve calls since the credentials last became expired

credVars == <<credValue, forceRefresh, provExpired, retrieves, credPc, got, cached, epoch>>

VARIABLES
    \* ---- BuildContentLengthHandler (qiniu/corehandlers/handlers.go) ----
    clIn,          \* the request before the handler: Content-Length header, Body
    clOut          \* the request after it: header, HTTPRequest.ContentLength, Error

clVars == <<clIn, clOut>>

VARIABLES
    \* ---- HandlerList (qiniu/request/handlers.go) ----
    heap,          \* the backing arrays of the handler slices
    tmpl,          \* one list of the client's template Handlers: array and length
    tmplAfter,     \* its AfterEachFn: nil, log (HandlerListLogItem), stop (HandlerListStopOnError)
    req,           \* the same list of the Request
    reqAfter,      \* its AfterEachFn
    hpc,           \* template (no Request yet), ready, running, ran
    hIdx,          \* Run: index of the next handler
    ranged,        \* Run: the slice taken by `range l.list`
    called,        \* the handlers Run has called, in order
    afterCalls,    \* calls of AfterEachFn
    hErr,          \* Request.Error is not nil
    stopped,       \* AfterEachFn returned false
    mutations,     \* changes made to the template so far
    snapshot       \* the template's handlers when the Request was created

hVars == <<heap, tmpl, tmplAfter, req, reqAfter, hpc, hIdx, ranged, called,
           afterCalls, hErr, stopped, mutations, snapshot>>

VARIABLES
    \* ---- request signing (qiniu/credentials/credentials.go) ----
    sgIn,          \* the http.Request handed to SignRequest / SignRequestV2
    sgOut          \* after the call: the body of the request, the body bytes signed, the error

sgVars == <<sgIn, sgOut>>

otherVars == <<rrVars, gsVars, selVars, credVars, clVars, hVars, sgVars>>

vars == <<pc, Error, Retryable, RetryCount, maxRetries, enforce, capture,
          HTTPResponse, built, method, Body, BodyStart, httpBody, ctxDone,
          timerFired, rt, retErr, attempts, completeRuns, lastErr, cancelAt,
          setOffset, prevRead, httpStart, upc, uploads, viaContext, srcSize, srcModTime, srcSeekable, fileSource,
          srcPos, disableResume, cfgStoreNumber, Concurrency, sidecar, clock,
          UploadID, Parts, LastModification, readPos, lastIndex, uerr,
          statusCode, limitC, wg, tasks, cur, eof, uctxDone, nextID,
          completeSent, completeParts, result, otherVars, buildVars, authValues>>

sendVars == <<pc, Error, Retryable, RetryCount, maxRetries, enforce, capture,
          HTTPResponse, built, method, Body, BodyStart, httpBody, ctxDone,
          timerFired, rt, retErr, attempts, completeRuns, lastErr, cancelAt,
          setOffset, prevRead, httpStart, buildVars, authValues>>

uploadVars == <<upc, uploads, viaContext, srcSize, srcModTime, srcSeekable, fileSource, srcPos,
          disableResume, cfgStoreNumber, Concurrency, sidecar, clock,
          UploadID, Parts, LastModification, readPos, lastIndex, uerr,
          statusCode, limitC, wg, tasks, cur, eof, uctxDone, nextID,
          completeSent, completeParts, result>>

\* what the actions of one component leave alone
rrRest == <<sendVars, uploadVars, gsVars, selVars, credVars, clVars, hVars, sgVars>>
gsRest == <<sendVars, uploadVars, rrVars, selVars, credVars, clVars, hVars, sgVars>>
selRest == <<sendVars, uploadVars, rrVars, gsVars, credVars, clVars, hVars, sgVars>>
credRest == <<sendVars, uploadVars, rrVars, gsVars, selVars, clVars, hVars, sgVars>>
clRest == <<sendVars, uploadVars, rrVars, gsVars, selVars, credVars, hVars, sgVars>>
sgRest == <<sendVars, uploadVars, rrVars, gsVars, selVars, credVars, clVars, hVars>>
hRest == <<sendVars, uploadVars, rrVars, gsVars, selVars, credVars, clVars, sgVars>>

(***************************************************************************)
(* Errors (qerr.Error): a code and the kind of the original error.         *)
(*   nil         no cause                                                  *)
(*   temp        a net error reporting Temporary() = true                  *)
(*   perm        a net error reporting Temporary() = false                 *)
(*   reset       a connection reset                                        *)
(*   plain       an error that does not implement Temporary                *)
(*   canceledStr the error "net/http: request canceled"                    *)
(*   ctx         context.Canceled                                          *)
(*   qerrTimeout a qerr.Error of code RequestTimeout                       *)
(***************************************************************************)
NilErr == [code |-> "nil", cause |-> "nil"]

NewErr(code, cause) == [code |-> code, cause |-> cause]

ErrCodeSerialization == "SerializationError"
ErrCodeRead == "ReadError"
ErrCodeResponseTimeout == "ResponseTimeout"
ErrCodeCanceled == "RequestCanceled"
ErrCodeDeserialization == "DeserializationError"

TransportCauses == {"temp", "perm", "reset", "plain", "canceledStr", "ctx"}

NoResponse == [present |-> FALSE, status |-> 0, closed |-> FALSE]

NoTransport == [kind |-> "none", status |-> 0, cause |-> "nil", badJSON |-> FALSE]

EmptyBuffer == [seekable |-> TRUE, hasLen |-> TRUE, size |-> 0, pos |-> 0]

\* API.TokenType as Kodo.newRequest reads it (service.go 45-56)
TokenTypes == {"none", "QBox", "Qiniu"}

(***************************************************************************)
(* Retry classification (qiniu/service.go, request package).               *)
(***************************************************************************)
retryableCodes == {"Crc32VerificationError", "RequestError", "RequestTimeout",
                   ErrCodeResponseTimeout, "RequestTimeoutException"}

isCodeRetryable(code) == code \in retryableCodes

validParentCodes == {ErrCodeSerialization, ErrCodeRead}

isErrConnectionReset(cause) == cause = "reset"

isNestedErrorRetryable(err) ==
    IF err.code \notin validParentCodes THEN FALSE
    ELSE IF err.cause = "nil" THEN FALSE
    ELSE IF err.cause = "qerrTimeout" THEN isCodeRetryable("RequestTimeout")
    ELSE IF err.cause \in {"temp", "perm", "reset"}
         THEN err.cause = "temp" \/ isErrConnectionReset(err.cause)
    ELSE isErrConnectionReset(err.cause)

IsErrorRetryable(err) ==
    IF err # NilErr
    THEN isCodeRetryable(err.code) \/ isNestedErrorRetryable(err)
    ELSE FALSE

\* shouldRetryCancel applied to the cause of a qerr.Error: the *url.Error
\* wrapper of a transport error is unwrapped by the second case of the switch.
shouldRetryCancelCause(cause) ==
    CASE cause = "nil" -> TRUE
      [] cause = "qerrTimeout" -> TRUE
      [] cause \in {"temp", "perm", "reset"} ->
             cause = "temp" \/ isErrConnectionReset(cause)
      [] cause = "canceledStr" -> FALSE
      [] OTHER -> TRUE

shouldRetryCancel(err) ==
    IF err.code = ErrCodeCanceled THEN FALSE
    ELSE shouldRetryCancelCause(err.cause)

(***************************************************************************)
(* DefaultRetryer (qiniu/client/default_client.go).                        *)
(***************************************************************************)
\* A retryer that treats 429 as it treats 406.
ShouldRetryThrottled(retryable, status, err) ==
    IF retryable # "nil" THEN retryable = "true"
    ELSE IF status = 503 THEN FALSE
    ELSE IF status \in {406, 429} THEN TRUE
    ELSE IsErrorRetryable(err)

ShouldRetry(retryable, status, err) ==
    IF retryable # "nil" THEN retryable = "true"
    ELSE IF status = 503 THEN FALSE
    ELSE IF status = 406 THEN TRUE
    ELSE IsErrorRetryable(err)

(***************************************************************************)
(* Request helpers (qiniu/request/request.go, qiniu readers).              *)
(***************************************************************************)
IsReaderSeekable(body) == body.seekable

\* SeekerLen: the bytes left to read, or -1 when the reader can neither
\* seek nor report a length.
SeekerLen(body) ==
    IF body.seekable \/ body.hasLen THEN body.size - body.pos ELSE -1

\* newOffsetReader(buf, offset) seeks the shared reader to the offset; the
\* Seek of an unseekable ReaderSeekerCloser does nothing.
newOffsetReader(body, offset) ==
    IF body.seekable THEN [body EXCEPT !.pos = offset] ELSE body

\* getNextRequestBody: the reader after the new offsetReader was made, and
\* the body handed to the HTTP request.
NextHTTPBody(body, m) ==
    LET l == SeekerLen(body) IN
    IF l = 0 THEN "NoBody"
    ELSE IF l > 0 THEN "safeBody"
    ELSE IF m \in {"GET", "HEAD", "DELETE"} THEN "NoBody" ELSE "safeBody"

getNextRequestBody(body, start, m) ==
    LET b == newOffsetReader(body, start) IN
    [body |-> b, http |-> NextHTTPBody(b, m)]

\* reader.Seek(0, io.SeekCurrent) of SetReaderBody
CurrentOffset(body) == IF body.seekable THEN body.pos ELSE 0

WillRetryNoCap(body, http, err, retryable, count, max) ==
    IF ~IsReaderSeekable(body) /\ http # "NoBody" THEN FALSE
    ELSE err # NilErr /\ retryable = "true" /\ count <= max

WillRetryNoSeekCheck(body, http, err, retryable, count, max) ==
    err # NilErr /\ retryable = "true" /\ count < max

WillRetry(body, http, err, retryable, count, max) ==
    IF ~IsReaderSeekable(body) /\ http # "NoBody" THEN FALSE
    ELSE err # NilErr /\ retryable = "true" /\ count < max

(***************************************************************************)
(* Core handlers (qiniu/corehandlers/handlers.go).                         *)
(***************************************************************************)
IsFailureStatus(status) == status = 0 \/ status >= 300

\* the switch of ValidateResponseHandler
ValidateResponseCode(status) ==
    CASE status = 401 -> "AuthorizationError"
      [] status = 400 -> "ParamsError"
      [] OTHER -> "UnknownError"

\* handleSendError for a transport error (not a status-like url.Error):
\* [err, retryable] after the handler.
handleSendErrorNoCtx(cause, done) ==
    [err |-> NewErr("RequestError", cause), retryable |-> "true"]

handleSendError(cause, done) ==
    IF done
    THEN [err |-> NewErr(ErrCodeCanceled, "ctx"), retryable |-> "false"]
    ELSE [err |-> NewErr("RequestError", cause), retryable |-> "true"]

\* CompleteHandler
CompleteHandler(resp) ==
    IF resp.present THEN [resp EXCEPT !.closed = TRUE] ELSE resp

(***************************************************************************)
(* The state after request.New (request.go 117-158): the body is an empty  *)
(* buffer, Error holds the result of parsing the endpoint URL.             *)
(***************************************************************************)
SendInit ==
    /\ pc = "new"
    /\ Error \in {NilErr, NewErr("InvalidEndpointURL", "plain")}
    /\ Retryable = "nil"
    /\ RetryCount = 0
    /\ maxRetries \in 0..MaxRetriesBound
    /\ enforce \in BOOLEAN
    /\ capture \in BOOLEAN
    /\ HTTPResponse = NoResponse
    /\ built = FALSE
    /\ method \in {"GET", "POST"}
    /\ Body = EmptyBuffer
    /\ BodyStart = 0
    /\ httpBody = "NoBody"
    /\ ctxDone = FALSE
    /\ timerFired = FALSE
    /\ rt = NoTransport
    /\ retErr = NilErr
    /\ attempts = 0
    /\ completeRuns = 0
    /\ lastErr = NilErr
    /\ cancelAt = "none"
    /\ setOffset = 0
    /\ prevRead = 0
    /\ httpStart = 0
    /\ validateRuns = 0
    /\ buildRuns = 0
    /\ tokenType \in TokenTypes
    /\ authValues = 0

\* The readers a caller or the body handler can hand to SetReaderBody.
Readers ==
    { b \in [seekable : BOOLEAN, hasLen : BOOLEAN, size : 0..MaxBodyLen,
             pos : 0..MaxBodyLen] : b.pos <= b.size /\ (b.seekable => b.hasLen) }

\* SetReaderBody (request.go 268-272): record the current offset, then
\* ResetBody.  [start, body, http] after the call.
SetReaderBodyResult(reader) ==
    LET start == CurrentOffset(reader)
        nb == getNextRequestBody(reader, start, method)
    IN [start |-> start, body |-> nb.body, http |-> nb.http]

SetReaderBody ==
    /\ pc = "new"
    /\ Body = EmptyBuffer
    /\ \E reader \in Readers :
         LET sb == SetReaderBodyResult(reader)
         IN /\ BodyStart' = sb.start
            /\ setOffset' = CurrentOffset(reader)
            /\ Body' = sb.body
            /\ httpBody' = sb.http
    /\ UNCHANGED <<pc, Error, Retryable, RetryCount, maxRetries, enforce,
                   capture, HTTPResponse, built, method, ctxDone, timerFired,
                   rt, retErr, attempts, completeRuns, lastErr, cancelAt,
                   prevRead, httpStart, uploadVars, otherVars, buildVars, authValues>>

(***************************************************************************)
(* The return of Send (request.go 365-367): the deferred Complete stage.   *)
(* The Complete list holds CompleteHandler first (defaults.go 72) and,     *)
(* when the capturing options were applied, handlers that read             *)
(* HTTPResponse without a nil check (request.go 164-188).                  *)
(***************************************************************************)
ReturnNoDefer(err, resp) ==
    /\ retErr' = err
    /\ completeRuns' = completeRuns
    /\ HTTPResponse' = resp
    /\ pc' = "done"

Return(err, resp) ==
    /\ retErr' = err
    /\ completeRuns' = completeRuns + 1
    /\ HTTPResponse' = CompleteHandler(resp)
    /\ pc' = IF capture /\ ~resp.present THEN "panicked" ELSE "done"

Finished == pc \in {"done", "panicked"}

\* Send, up to the loop (request.go 364-373)
SendBegin ==
    /\ pc = "new"
    /\ IF Error # NilErr
       THEN Return(Error, HTTPResponse)
       ELSE /\ pc' = "attempt"
            /\ UNCHANGED <<retErr, completeRuns, HTTPResponse>>
    /\ UNCHANGED <<Error, Retryable, RetryCount, maxRetries, enforce, capture,
                   built, method, Body, BodyStart, httpBody, ctxDone,
                   timerFired, rt, attempts, lastErr, cancelAt, setOffset,
                   prevRead, httpStart, uploadVars, otherVars, buildVars, authValues>>

\* A Build that looks at no flag.
NeedsBuildAlways(b) == TRUE

\* QboxTokenRequestHandler and QiniuTokenRequestHandler, their last
\* statement: Header.Add("Authorization", ...) appends a value
TokenRequestHandler(t, n) == IF t = "none" THEN n ELSE n + 1

\* copyHTTPRequest: the clone carries the headers of the request it copies
copyHTTPRequest(n) == n

\* Build, its guard `if !r.built` (request.go 296)
NeedsBuild(b) == ~b

\* The loop head with a failing Sign (request.go 374-380, Build 295-311,
\* Sign 315-324): Validate and Build run only while the request is not
\* built; the Sign list runs on every attempt.
SignFails ==
    /\ pc = "attempt"
    /\ \E stage \in (IF NeedsBuild(built) THEN {"validate", "build", "sign"}
                      ELSE {"sign"}) :
         LET err == CASE stage = "validate" -> NewErr("StructFieldError", "nil")
                      [] stage = "build" -> NewErr(ErrCodeSerialization, "plain")
                      [] OTHER -> NewErr(ErrCodeSerialization, "plain")
         IN /\ Error' = err
            /\ built' = (built \/ stage = "sign")
            /\ validateRuns' = validateRuns + (IF NeedsBuild(built) THEN 1 ELSE 0)
            /\ buildRuns' = buildRuns + (IF NeedsBuild(built) /\ stage # "validate"
                                        THEN 1 ELSE 0)
            /\ Return(err, HTTPResponse)
    /\ UNCHANGED <<Retryable, RetryCount, maxRetries, enforce, capture, method,
                   Body, BodyStart, httpBody, ctxDone, timerFired, rt,
                   attempts, lastErr, cancelAt, setOffset, prevRead, httpStart,
                   tokenType, authValues, uploadVars, otherVars>>

\* A signer that covers the body (credentials.go 339-346, 409-418) reads the
\* HTTP body to its end and hands the transport a buffer with the same
\* bytes; the reader under the body is left where the read stopped.
SignedBody(body, http, signed) ==
    IF signed /\ http # "NoBody" THEN [body EXCEPT !.pos = body.size] ELSE body

\* The loop head with a clean Sign, then sendRequest up to the HTTP round
\* trip (request.go 374-382, 415-419; SendHandler handlers.go 60-85).  The
\* body handler of the Build stage sets the body when the request has
\* params (handlers.go 94-124).
SignAndSend ==
    /\ pc = "attempt"
    /\ Error' = NilErr
    /\ built' = TRUE
    /\ \E signed \in BOOLEAN :
         \/ /\ httpStart' = Body.pos
            /\ Body' = SignedBody(Body, httpBody, signed)
            /\ UNCHANGED <<BodyStart, httpBody, setOffset>>
         \/ /\ NeedsBuild(built)
            /\ \E n \in 0..MaxBodyLen :
                 LET sb == SetReaderBodyResult([seekable |-> TRUE,
                               hasLen |-> TRUE, size |-> n, pos |-> 0])
                 IN /\ BodyStart' = sb.start
                    /\ setOffset' = 0
                    /\ httpBody' = sb.http
                    /\ httpStart' = sb.body.pos
                    /\ Body' = SignedBody(sb.body, sb.http, signed)
    /\ validateRuns' = validateRuns + (IF NeedsBuild(built) THEN 1 ELSE 0)
    /\ buildRuns' = buildRuns + (IF NeedsBuild(built) THEN 1 ELSE 0)
    /\ authValues' = TokenRequestHandler(tokenType, authValues)
    /\ Retryable' = "nil"
    /\ attempts' = attempts + 1
    /\ pc' = "roundtrip"
    /\ UNCHANGED <<RetryCount, maxRetries, enforce, capture, HTTPResponse,
                   method, ctxDone, timerFired, rt, retErr, completeRuns,
                   lastErr, cancelAt, prevRead, tokenType, uploadVars, otherVars>>

\* The caller cancels the request context.
Cancel ==
    /\ pc \in {"attempt", "roundtrip", "classify", "sleep"}
    /\ ~ctxDone
    /\ ctxDone' = TRUE
    /\ cancelAt' = pc
    /\ UNCHANGED <<pc, Error, Retryable, RetryCount, maxRetries, enforce,
                   capture, HTTPResponse, built, method, Body, BodyStart,
                   httpBody, timerFired, rt, retErr, attempts, completeRuns,
                   lastErr, setOffset, prevRead, httpStart, uploadVars, otherVars, buildVars, authValues>>

(***************************************************************************)
(* What the HTTP client can return (sendFollowRedirects, handlers.go       *)
(* 126-137): a response, a transport error, or a *url.Error whose text     *)
(* starts with a status code.                                              *)
(***************************************************************************)
MappedStatuses == {298, 400, 401, 403, 404, 405, 406, 419, 478, 503, 504,
                   573, 579, 599, 608, 612, 614}

Statuses == MappedStatuses \cup {200, 429, 500, 501}

Outcomes ==
    { [kind |-> "resp", status |-> s, cause |-> "nil", badJSON |-> FALSE] :
        s \in Statuses }
    \cup { [kind |-> "resp", status |-> 200, cause |-> "nil", badJSON |-> TRUE] }
    \cup { [kind |-> "err", status |-> 0, cause |-> c, badJSON |-> FALSE] :
        c \in TransportCauses }
    \cup { [kind |-> "urlerr", status |-> 301, cause |-> "plain", badJSON |-> FALSE] }

\* The round trip returns; the transport has read some of the request body.
TransportReturn ==
    /\ pc = "roundtrip"
    /\ \E o \in Outcomes :
         /\ (o.cause = "ctx") => ctxDone
         /\ rt' = o
    /\ \E p \in Body.pos..Body.size :
         /\ (httpBody = "NoBody") => p = Body.pos
         /\ Body' = [Body EXCEPT !.pos = p]
         /\ prevRead' = p
    /\ pc' = "classify"
    /\ UNCHANGED <<Error, Retryable, RetryCount, maxRetries, enforce, capture,
                   HTTPResponse, built, method, BodyStart, httpBody, ctxDone,
                   timerFired, retErr, attempts, completeRuns, lastErr,
                   cancelAt, setOffset, httpStart, uploadVars, otherVars, buildVars, authValues>>

(***************************************************************************)
(* The rest of the attempt: SendHandler's error handling, response          *)
(* validation and unmarshalling (sendRequest, request.go 420-446), then the *)
(* retry decision of Send (request.go 382-396) with AfterRetryHandler      *)
(* (handlers.go 236-256) up to its sleep.                                  *)
(***************************************************************************)
\* HTTPResponse after SendHandler (handlers.go 85-88, 139-168)
ResponseAfterSend(o) ==
    [present |-> TRUE, status |-> o.status, closed |-> FALSE]

\* [err, retryable] at the end of sendRequest
AttemptResult(o, done) ==
    IF o.kind = "err" THEN handleSendError(o.cause, done)
    ELSE IF IsFailureStatus(o.status)
         THEN [err |-> NewErr(ValidateResponseCode(o.status), "nil"),
               retryable |-> "nil"]
    ELSE IF o.badJSON
         THEN [err |-> NewErr(ErrCodeDeserialization, "plain"), retryable |-> "nil"]
    ELSE [err |-> NilErr, retryable |-> "nil"]

AfterSend ==
    /\ pc = "classify"
    /\ LET resp == ResponseAfterSend(rt)
           res == AttemptResult(rt, ctxDone)
           \* AfterRetryHandler, first statement
           decided == IF res.retryable = "nil" \/ enforce
                      THEN (IF ShouldRetry(res.retryable, resp.status, res.err)
                            THEN "true" ELSE "false")
                      ELSE res.retryable
       IN /\ lastErr' = res.err
          /\ IF res.err = NilErr
             THEN /\ Error' = NilErr
                  /\ Retryable' = res.retryable
                  /\ Return(NilErr, resp)
             ELSE IF ~shouldRetryCancel(res.err)
             THEN /\ Error' = res.err
                  /\ Retryable' = res.retryable
                  /\ Return(res.err, resp)
             ELSE IF WillRetry(Body, httpBody, res.err, decided, RetryCount, maxRetries)
             THEN /\ Error' = res.err
                  /\ Retryable' = decided
                  /\ HTTPResponse' = resp
                  /\ pc' = "sleep"
                  /\ UNCHANGED <<retErr, completeRuns>>
             ELSE /\ Error' = res.err
                  /\ Retryable' = decided
                  /\ Return(res.err, resp)
    /\ timerFired' = FALSE
    /\ UNCHANGED <<RetryCount, maxRetries, enforce, capture, built, method,
                   Body, BodyStart, httpBody, ctxDone, rt, attempts, cancelAt,
                   setOffset, prevRead, httpStart, uploadVars, otherVars, buildVars, authValues>>

\* The timer of SleepWithContext expires (context_sleep.go 10, 14).
TimerFire ==
    /\ pc = "sleep"
    /\ ~timerFired
    /\ timerFired' = TRUE
    /\ UNCHANGED <<pc, Error, Retryable, RetryCount, maxRetries, enforce,
                   capture, HTTPResponse, built, method, Body, BodyStart,
                   httpBody, ctxDone, rt, retErr, attempts, completeRuns,
                   lastErr, cancelAt, setOffset, prevRead, httpStart, uploadVars, otherVars, buildVars, authValues>>

\* prepareRetry (request.go 400-413): clone the HTTP request, ResetBody,
\* close the response body of the failed attempt.
prepareRetryNoReset(body, start, m) ==
    [body |-> body, http |-> NextHTTPBody(body, m)]

prepareRetry(body, start, m) == getNextRequestBody(body, start, m)

\* The select of SleepWithContext takes the timer branch; the handler
\* counts the retry and clears the error, Send prepares the retry
\* (handlers.go 253-254, request.go 390-395).
SleepDone ==
    /\ pc = "sleep"
    /\ timerFired
    /\ RetryCount' = RetryCount + 1
    /\ Error' = NilErr
    /\ LET nb == prepareRetry(Body, BodyStart, method)
       IN /\ Body' = nb.body
          /\ httpBody' = nb.http
    /\ authValues' = copyHTTPRequest(authValues)
    /\ HTTPResponse' = CompleteHandler(HTTPResponse)
    /\ pc' = "attempt"
    /\ UNCHANGED <<Retryable, maxRetries, enforce, capture, built, method,
                   BodyStart, ctxDone, timerFired, rt, retErr, attempts,
                   completeRuns, lastErr, cancelAt, setOffset, prevRead, httpStart, uploadVars, otherVars, buildVars>>

\* The select of SleepWithContext takes the ctx.Done branch (context_sleep.go
\* 16-17); the handler sets RequestCanceled and returns, Send returns the
\* error (handlers.go 246-251, request.go 390-392).
SleepAbortCounted(err) ==
    /\ RetryCount' = RetryCount + 1
    /\ Error' = err
    /\ Retryable' = "false"
    /\ Return(err, HTTPResponse)

SleepAbortEffect(err) ==
    /\ RetryCount' = RetryCount
    /\ Error' = err
    /\ Retryable' = "false"
    /\ Return(err, HTTPResponse)

SleepAbort ==
    /\ pc = "sleep"
    /\ ctxDone
    /\ SleepAbortEffect(NewErr(ErrCodeCanceled, "ctx"))
    /\ UNCHANGED <<maxRetries, enforce, capture, built, method, Body,
                   BodyStart, httpBody, ctxDone, timerFired, rt, attempts,
                   lastErr, cancelAt, setOffset, prevRead, httpStart, uploadVars, otherVars, buildVars, authValues>>

SendNext ==
    \/ SetReaderBody
    \/ SendBegin
    \/ SignFails
    \/ SignAndSend
    \/ Cancel
    \/ TransportReturn
    \/ AfterSend
    \/ TimerFire
    \/ SleepDone
    \/ SleepAbort

(***************************************************************************)
(* Multipart upload (service/kodo multipart uploader).                     *)
(***************************************************************************)
DefaultUploadConcurrency == 5
DefaultStoreNumber == 10

NoSidecar == [exists |-> FALSE, uploadID |-> 0, parts |-> <<>>, lastMod |-> 0,
              mtime |-> 0]

NoPart == [index |-> 0, size |-> 0, read |-> 0, doomed |-> FALSE]

\* completedParts.Size (sum of the size fields)
RECURSIVE PartsSize(_)
PartsSize(parts) ==
    IF parts = <<>> THEN 0 ELSE Head(parts).size + PartsSize(Tail(parts))

\* sort.Sort(uploader.Parts) with completedParts.Less
RECURSIVE InsertPart(_, _)
InsertPart(p, sorted) ==
    IF sorted = <<>> THEN <<p>>
    ELSE IF p.Index < Head(sorted).Index THEN <<p>> \o sorted
    ELSE <<Head(sorted)>> \o InsertPart(p, Tail(sorted))

RECURSIVE SortParts(_)
SortParts(parts) ==
    IF parts = <<>> THEN <<>>
    ELSE InsertPart(parts[Len(parts)], SortParts(SubSeq(parts, 1, Len(parts) - 1)))

\* UploadInput.init, the default of Concurrency
InitConcurrency(c) == IF c <= 0 THEN DefaultUploadConcurrency ELSE c

\* newMultipartUploader, the choice of storeNumber
StoreNumber == IF cfgStoreNumber > 0 THEN cfgStoreNumber ELSE DefaultStoreNumber

\* resumeRecorder.recovery: the record is decoded into the recorder, then the
\* modification time of the opened file (the sidecar) is compared with it.
RecoveryOk(sc) == sc.mtime = sc.lastMod

\* resumeRecorder.reset, applied to [UploadID, Parts, LastModification]
ResetRecorder(r) ==
    [r EXCEPT !.UploadID = 0, !.Parts = r.Parts, !.LastModification = 0]

\* lastMod(resumeFilePath(...))
LastMod(sc) == IF sc.exists THEN sc.mtime ELSE 0

\* newMultipartUploader: the uploader's resume state and positions, from the
\* sidecar found on disk.
NewUploader(sc, seekOk) ==
    LET fresh == [UploadID |-> 0, Parts |-> <<>>, LastModification |-> 0,
                  readPos |-> 0, lastIndex |-> 0]
        decoded == [fresh EXCEPT !.UploadID = sc.uploadID, !.Parts = sc.parts,
                                 !.LastModification = sc.lastMod]
        resumed == [decoded EXCEPT !.readPos = PartsSize(decoded.Parts),
                                   !.lastIndex = Len(decoded.Parts)]
        r1 == IF ~disableResume /\ sc.exists /\ fileSource
              THEN IF RecoveryOk(sc)
                   THEN IF seekOk THEN resumed ELSE ResetRecorder(decoded)
                   ELSE ResetRecorder(decoded)
              ELSE fresh
    IN IF ~disableResume /\ r1.LastModification = 0
       THEN [r1 EXCEPT !.LastModification = LastMod(sc)]
       ELSE r1

\* what an upload has returned: the error ("none" while it runs, "nil" for
\* success) and whether it is a MultiUploadFailure
NoResult == [err |-> "none", multi |-> FALSE]

\* errUpload: the error is wrapped into a MultiUploadFailure only when a
\* status code was captured
errUpload(err, sc) ==
    IF err = "nil" THEN [err |-> "nil", multi |-> FALSE]
    ELSE IF sc <= 0 THEN [err |-> err, multi |-> FALSE]
    ELSE [err |-> err, multi |-> TRUE]

UploadInit ==
    /\ upc = "idle"
    /\ uploads = 0
    /\ viaContext = FALSE
    /\ srcSize \in 0..MaxSourceLen
    /\ srcModTime = 1
    /\ srcSeekable \in BOOLEAN
    /\ fileSource \in BOOLEAN
    /\ fileSource => srcSeekable
    /\ srcPos = 0
    /\ disableResume \in BOOLEAN
    /\ cfgStoreNumber \in 0..MaxStoreNumber
    /\ Concurrency = 0
    /\ sidecar = NoSidecar
    /\ clock = 1
    /\ UploadID = 0
    /\ Parts = <<>>
    /\ LastModification = 0
    /\ readPos = 0
    /\ lastIndex = 0
    /\ uerr = "nil"
    /\ statusCode = 0
    /\ limitC = 0
    /\ wg = 0
    /\ tasks = {}
    /\ cur = NoPart
    /\ eof = FALSE
    /\ uctxDone = FALSE
    /\ nextID = 0
    /\ completeSent = FALSE
    /\ completeParts = <<>>
    /\ result = NoResult

\* UploadMultipart (which calls input.init) or UploadMultipartContext (which
\* does not) up to the call of upload: newMultipartUploader; the source is
\* at offset 0.
NewUpload ==
    /\ upc \in {"idle", "done"}
    /\ uploads < MaxUploads
    /\ uploads' = uploads + 1
    /\ \E c \in 0..MaxConcurrency, v \in BOOLEAN :
         /\ viaContext' = v
         /\ Concurrency' = IF v THEN c ELSE InitConcurrency(c)
    /\ \E seekOk \in BOOLEAN :
         LET u == NewUploader(sidecar, seekOk)
         IN /\ UploadID' = u.UploadID
            /\ Parts' = u.Parts
            /\ LastModification' = u.LastModification
            /\ readPos' = u.readPos
            /\ lastIndex' = u.lastIndex
    /\ srcPos' = 0
    /\ uerr' = "nil"
    /\ statusCode' = 0
    /\ limitC' = 0
    /\ wg' = 0
    /\ tasks' = {}
    /\ cur' = NoPart
    /\ eof' = FALSE
    /\ uctxDone' = FALSE
    /\ completeSent' = FALSE
    /\ completeParts' = <<>>
    /\ result' = NoResult
    /\ upc' = "init"
    /\ UNCHANGED <<srcSize, srcModTime, srcSeekable, fileSource, disableResume,
                   cfgStoreNumber, sidecar, clock, nextID>>
    /\ UNCHANGED <<sendVars, otherVars>>

\* upload, the init request (hasNoUploadID, multipartUploader.init)
InitSession ==
    /\ upc = "init"
    /\ IF UploadID = 0
       THEN \/ /\ nextID' = nextID + 1
               /\ UploadID' = nextID + 1
               /\ upc' = "loop"
               /\ UNCHANGED <<statusCode, result>>
            \/ /\ \E sc \in {0, 401} : statusCode' = sc
               /\ result' = errUpload("initError", statusCode')
               /\ upc' = "done"
               /\ UNCHANGED <<nextID, UploadID>>
       ELSE /\ upc' = "loop"
            /\ UNCHANGED <<nextID, UploadID, statusCode, result>>
    /\ UNCHANGED <<uploads, viaContext, srcSize, srcModTime, srcSeekable, fileSource, srcPos,
                   disableResume, cfgStoreNumber, Concurrency, sidecar, clock,
                   Parts, LastModification, readPos, lastIndex, uerr, limitC,
                   wg, tasks, cur, eof, uctxDone, completeSent, completeParts>>
    /\ UNCHANGED <<sendVars, otherVars>>

\* the size known to the uploader: -1 for a source that cannot seek
TotalSize == IF srcSeekable THEN srcSize ELSE -1

\* nextPart: the length of the buffer it reads into
BufferLen ==
    LET leftBytes == TotalSize - readPos
    IN IF TotalSize # -1 /\ leftBytes < PartSize /\ leftBytes > 0
       THEN leftBytes ELSE PartSize

Min(a, b) == IF a < b THEN a ELSE b

\* A loop that goes on reading parts after an error was recorded.
LoopIgnoresErr == ~eof

\* upload, the condition of its loop (line 624)
LoopCondition == uerr = "nil" /\ ~eof

\* One iteration of the loop of upload up to the semaphore: nextPart reads
\* the next part, or reports io.EOF or a read error.
NextPart ==
    /\ upc = "loop"
    /\ LoopCondition
    /\ LET avail == srcSize - srcPos
           n == Min(avail, BufferLen)
       IN \/ /\ avail = 0                     \* io.ReadFull: 0 bytes, io.EOF
             /\ eof' = TRUE
             /\ UNCHANGED <<srcPos, readPos, lastIndex, cur, uerr, upc>>
          \/ /\ avail > 0
             /\ srcPos' = srcPos + n
             /\ readPos' = readPos + n
             /\ lastIndex' = lastIndex + 1
             /\ cur' = [index |-> lastIndex + 1, size |-> BufferLen, read |-> n,
                        doomed |-> FALSE]
             /\ eof' = (n < BufferLen)        \* io.ErrUnexpectedEOF becomes io.EOF
             /\ upc' = "dispatch"
             /\ UNCHANGED uerr
          \/ /\ uerr' = "read"                \* any other read error
             /\ UNCHANGED <<srcPos, readPos, lastIndex, cur, eof, upc>>
    /\ UNCHANGED <<uploads, viaContext, srcSize, srcModTime, srcSeekable, fileSource, disableResume,
                   cfgStoreNumber, Concurrency, sidecar, clock, UploadID,
                   Parts, LastModification, statusCode, limitC, wg, tasks,
                   uctxDone, nextID, completeSent, completeParts, result>>
    /\ UNCHANGED <<sendVars, otherVars>>

\* A dispatch that starts the part as a task of its own without taking a
\* slot of limitC.
DispatchUnbounded ==
    /\ limitC' = limitC
    /\ wg' = wg + 1
    /\ tasks' = tasks \cup {[cur EXCEPT !.doomed = uctxDone]}
    /\ upc' = "loop"

\* upload, lines 628-631: take a slot of limitC, count the part in the
\* WaitGroup and call uploadPart; the call returns when the part is done.
Dispatch ==
    /\ limitC < Concurrency
    /\ limitC' = limitC + 1
    /\ wg' = wg + 1
    /\ tasks' = tasks \cup {[cur EXCEPT !.doomed = uctxDone]}
    /\ upc' = "part"

DispatchPart ==
    /\ upc = "dispatch"
    /\ Dispatch
    /\ UNCHANGED <<uploads, viaContext, srcSize, srcModTime, srcSeekable, fileSource, srcPos,
                   disableResume, cfgStoreNumber, Concurrency, sidecar, clock,
                   UploadID, Parts, LastModification, readPos, lastIndex, uerr,
                   statusCode, cur, eof, uctxDone, nextID, completeSent,
                   completeParts, result>>
    /\ UNCHANGED <<sendVars, otherVars>>

(***************************************************************************)
(* uploadPart (the running task of one part).  Its deferred calls give     *)
(* the slot of limitC back and signal the WaitGroup; upload, which called  *)
(* it, goes on with its loop.                                              *)
(***************************************************************************)
\* A return that gives the slot back and signals the WaitGroup while the
\* task goes on running.
PartReturnsEarly(t) ==
    /\ limitC > 0
    /\ limitC' = limitC - 1
    /\ wg' = wg - 1
    /\ tasks' = tasks
    /\ upc' = IF upc = "part" THEN "loop" ELSE upc

PartReturns(t) ==
    /\ limitC > 0
    /\ limitC' = limitC - 1
    /\ wg' = wg - 1
    /\ tasks' = tasks \ {t}
    /\ upc' = IF upc = "part" THEN "loop" ELSE upc

\* resumeRecorder.store: the record written to the sidecar
StoredRecord(parts) ==
    [exists |-> TRUE, uploadID |-> UploadID, parts |-> parts,
     lastMod |-> LastModification, mtime |-> clock]

\* A store after every completed part.
ShouldStoreAlways(parts) == ~disableResume /\ Len(parts) > 0

\* uploadPart, the condition of the store of the record
ShouldStore(parts) ==
    ~disableResume /\ Len(parts) > 0 /\ Len(parts) % StoreNumber = 0

\* uploadPartRequest fails (no upload host, md5): seterr and return
PartRequestFails ==
    /\ \E t \in tasks :
         /\ uerr' = "request"
         /\ PartReturns(t)
    /\ UNCHANGED <<uploads, viaContext, srcSize, srcModTime, srcSeekable, fileSource, srcPos,
                   disableResume, cfgStoreNumber, Concurrency, sidecar, clock,
                   UploadID, Parts, LastModification, readPos, lastIndex,
                   statusCode, cur, eof, uctxDone, nextID, completeSent,
                   completeParts, result>>
    /\ UNCHANGED <<sendVars, otherVars>>

\* req.Send() of the part fails: the error and the status code are recorded
PartSendFails ==
    /\ \E t \in tasks :
         /\ uerr' = IF uctxDone THEN "canceled" ELSE "send"
         /\ \E sc \in {0, 500} : statusCode' = sc
         /\ PartReturns(t)
    /\ UNCHANGED <<uploads, viaContext, srcSize, srcModTime, srcSeekable, fileSource, srcPos,
                   disableResume, cfgStoreNumber, Concurrency, sidecar, clock,
                   UploadID, Parts, LastModification, readPos, lastIndex,
                   cur, eof, uctxDone, nextID, completeSent, completeParts,
                   result>>
    /\ UNCHANGED <<sendVars, otherVars>>

\* req.Send() of the part succeeds (the body handler takes the byte buffer
\* of the part as the body): the part is appended to Parts and the record is
\* stored when the number of parts is a multiple of storeNumber.
PartSendOk ==
    /\ \E t \in tasks :
         /\ ~t.doomed
         /\ LET parts == Append(Parts, [Index |-> t.index, Etag |-> UploadID,
                                        size |-> 0])
            IN /\ Parts' = parts
               /\ IF ShouldStore(parts)
                  THEN sidecar' = StoredRecord(parts)
                  ELSE UNCHANGED sidecar
         /\ PartReturns(t)
    /\ UNCHANGED <<uploads, viaContext, srcSize, srcModTime, srcSeekable, fileSource, srcPos,
                   disableResume, cfgStoreNumber, Concurrency, clock,
                   UploadID, LastModification, readPos, lastIndex, uerr,
                   statusCode, cur, eof, uctxDone, nextID, completeSent,
                   completeParts, result>>
    /\ UNCHANGED <<sendVars, otherVars>>

\* The condition of the loop of upload fails.
LoopExit ==
    /\ upc = "loop"
    /\ ~LoopCondition
    /\ upc' = "join"
    /\ UNCHANGED <<uploads, viaContext, srcSize, srcModTime, srcSeekable, fileSource, srcPos,
                   disableResume, cfgStoreNumber, Concurrency, sidecar, clock,
                   UploadID, Parts, LastModification, readPos, lastIndex, uerr,
                   statusCode, limitC, wg, tasks, cur, eof, uctxDone, nextID,
                   completeSent, completeParts, result>>
    /\ UNCHANGED <<sendVars, otherVars>>

\* wg.Wait() returns: with an error recorded upload returns it, otherwise it
\* goes on to complete.
Join ==
    /\ upc = "join"
    /\ wg = 0
    /\ IF uerr # "nil"
       THEN /\ result' = errUpload(uerr, statusCode)
            /\ upc' = "done"
       ELSE /\ upc' = "complete"
            /\ UNCHANGED result
    /\ UNCHANGED <<uploads, viaContext, srcSize, srcModTime, srcSeekable, fileSource, srcPos,
                   disableResume, cfgStoreNumber, Concurrency, sidecar, clock,
                   UploadID, Parts, LastModification, readPos, lastIndex, uerr,
                   statusCode, limitC, wg, tasks, cur, eof, uctxDone, nextID,
                   completeSent, completeParts>>
    /\ UNCHANGED <<sendVars, otherVars>>

\* A close that leaves the file on disk.
closeKeepsFile(sc) == sc

\* resumeRecorder.close: os.Remove of the sidecar
close(sc) == NoSidecar

\* complete: completeRequest sorts Parts and builds the request, the request
\* is sent; the deferred close of upload removes the sidecar.
Complete ==
    /\ upc = "complete"
    /\ Parts' = SortParts(Parts)
    /\ completeParts' = SortParts(Parts)
    /\ completeSent' = TRUE
    /\ \/ result' = errUpload("nil", 0)
       \/ \E sc \in {0, 500} :
             LET err == errUpload("completeError", sc)
             IN result' = IF statusCode <= 0 THEN err
                          ELSE [err EXCEPT !.multi = TRUE]
    /\ sidecar' = close(sidecar)
    /\ upc' = "done"
    /\ UNCHANGED <<uploads, viaContext, srcSize, srcModTime, srcSeekable, fileSource, srcPos,
                   disableResume, cfgStoreNumber, Concurrency, clock,
                   UploadID, LastModification, readPos, lastIndex, uerr,
                   statusCode,
                   limitC, wg, tasks, cur, eof, uctxDone, nextID>>
    /\ UNCHANGED <<sendVars, otherVars>>

\* The caller cancels the context given to UploadMultipartContext.
CancelUpload ==
    /\ viaContext
    /\ upc \in {"loop", "dispatch", "part", "join"}
    /\ ~uctxDone
    /\ uctxDone' = TRUE
    /\ UNCHANGED <<upc, uploads, viaContext, srcSize, srcModTime, srcSeekable, fileSource, srcPos,
                   disableResume, cfgStoreNumber, Concurrency, sidecar, clock,
                   UploadID, Parts, LastModification, readPos, lastIndex, uerr,
                   statusCode, limitC, wg, tasks, cur, eof, nextID,
                   completeSent, completeParts, result>>
    /\ UNCHANGED <<sendVars, otherVars>>

\* The source file is written to between two uploads: its modification
\* time becomes the current time.
ModifySource ==
    /\ upc \in {"idle", "done"}
    /\ fileSource
    /\ srcModTime < clock
    /\ srcModTime' = clock
    /\ UNCHANGED <<upc, uploads, viaContext, srcSize, srcSeekable, fileSource,
                   srcPos, disableResume, cfgStoreNumber, Concurrency, sidecar,
                   clock, UploadID, Parts, LastModification, readPos, lastIndex,
                   uerr, statusCode, limitC, wg, tasks, cur, eof, uctxDone,
                   nextID, completeSent, completeParts, result>>
    /\ UNCHANGED <<sendVars, otherVars>>

\* Time passes.
Tick ==
    /\ clock < MaxClock
    /\ clock' = clock + 1
    /\ UNCHANGED <<upc, uploads, viaContext, srcSize, srcModTime, srcSeekable, fileSource, srcPos,
                   disableResume, cfgStoreNumber, Concurrency, sidecar,
                   UploadID, Parts, LastModification, readPos, lastIndex, uerr,
                   statusCode, limitC, wg, tasks, cur, eof, uctxDone, nextID,
                   completeSent, completeParts, result>>
    /\ UNCHANGED <<sendVars, otherVars>>

UploadNext ==
    \/ NewUpload
    \/ InitSession
    \/ NextPart
    \/ DispatchPart
    \/ PartRequestFails
    \/ PartSendFails
    \/ PartSendOk
    \/ LoopExit
    \/ Join
    \/ Complete
    \/ CancelUpload
    \/ ModifySource
    \/ Tick

(***************************************************************************)
(* RoundRobinSelector (service/kodo, with the selectors): Select and IsEOF *)
(* both take the selector's sync.Mutex, and Select calls IsEOF while it    *)
(* holds the mutex.  A sync.Mutex is not reentrant.                        *)
(***************************************************************************)
Threads == 1..MaxThreads

\* NewRoundRobinSelector
RRInit ==
    /\ nHosts \in 1..MaxHosts
    /\ rrLastIndex = -1
    /\ rrMu = 0
    /\ rrPc = [t \in Threads |-> "idle"]
    /\ rrOut = <<>>
    /\ rrEOF = [t \in Threads |-> "none"]

\* the comparison made by IsEOF
IsEOF == rrLastIndex = nHosts - 1

\* a thread calls Select and reaches s.mu.Lock()
CallSelect(t) ==
    /\ rrPc[t] = "idle"
    /\ Len(rrOut) < MaxSelects
    /\ rrPc' = [rrPc EXCEPT ![t] = "selectLock"]
    /\ UNCHANGED <<nHosts, rrLastIndex, rrMu, rrOut, rrEOF, rrRest>>

\* a thread calls IsEOF itself and reaches s.mu.Lock()
CallIsEOF(t) ==
    /\ rrPc[t] = "idle"
    /\ rrPc' = [rrPc EXCEPT ![t] = "isEOFLock"]
    /\ UNCHANGED <<nHosts, rrLastIndex, rrMu, rrOut, rrEOF, rrRest>>

\* s.mu.Lock() returns: the mutex was free
Lock(t) ==
    /\ rrPc[t] \in {"selectLock", "isEOFLock", "innerLock"}
    /\ rrMu = 0
    /\ rrMu' = t
    /\ rrPc' = [rrPc EXCEPT ![t] = CASE rrPc[t] = "selectLock" -> "select"
                                     [] rrPc[t] = "isEOFLock" -> "isEOF"
                                     [] OTHER -> "inner"]
    /\ UNCHANGED <<nHosts, rrLastIndex, rrOut, rrEOF, rrRest>>

\* Select, holding the mutex, calls IsEOF, which reaches s.mu.Lock()
SelectCallsIsEOF(t) ==
    /\ rrPc[t] = "select"
    /\ rrPc' = [rrPc EXCEPT ![t] = "innerLock"]
    /\ UNCHANGED <<nHosts, rrLastIndex, rrMu, rrOut, rrEOF, rrRest>>

\* IsEOF returns and its deferred Unlock runs.  When Select was the caller
\* it goes on: it moves lastIndex, picks the host, and its own deferred
\* Unlock finds the mutex unlocked, which is a fatal error.
IsEOFReturn(t) ==
    /\ rrPc[t] \in {"isEOF", "inner"}
    /\ rrMu' = 0
    /\ IF rrPc[t] = "isEOF"
       THEN /\ rrPc' = [rrPc EXCEPT ![t] = "idle"]
            /\ rrEOF' = [rrEOF EXCEPT ![t] = IF IsEOF THEN "true" ELSE "false"]
            /\ UNCHANGED <<rrLastIndex, rrOut>>
       ELSE /\ rrLastIndex' = IF IsEOF THEN 0 ELSE rrLastIndex + 1
            /\ rrOut' = Append(rrOut, rrLastIndex')
            /\ rrPc' = [rrPc EXCEPT ![t] = "fatal"]
            /\ UNCHANGED rrEOF
    /\ UNCHANGED <<nHosts, rrRest>>

RRNext ==
    \E t \in Threads :
        \/ CallSelect(t)
        \/ CallIsEOF(t)
        \/ Lock(t)
        \/ SelectCallsIsEOF(t)
        \/ IsEOFReturn(t)

RRIdle ==
    /\ nHosts = 1 /\ rrLastIndex = -1 /\ rrMu = 0
    /\ rrPc = [t \in Threads |-> "idle"] /\ rrOut = <<>>
    /\ rrEOF = [t \in Threads |-> "none"]

(***************************************************************************)
(* getSelector (service/kodo/upload_form.go 246-276).  A RegionDomains     *)
(* value is one of                                                         *)
(*   empty       every upload domain group is empty                        *)
(*   backupOnly  an upload group holds hosts, none of them a main host     *)
(*   main        an upload group with main hosts                           *)
(***************************************************************************)
KnownRegions == {"z0", "z1", "z2", "as0", "na0"}

\* GetDefaultRegion: the local record of a known region, else an empty one
GetDefaultRegion(region) == IF region \in KnownRegions THEN "main" ELSE "empty"

AllUpDomainGroupEmpty(rd) == rd = "empty"

\* RegionDomains.SelectUpDomainGroup: the first upload group with main hosts
SelectUpDomainGroup(rd) == IF rd = "main" THEN "main" ELSE "empty"

NoSelection == [from |-> "none", err |-> "nil", queried |-> FALSE]

\* A getSelector that looks at the host list before the selector.
getSelectorListFirst(upHosts, sel, region, query) ==
    IF upHosts > 0
    THEN [from |-> "list", err |-> "nil", queried |-> FALSE]
    ELSE IF sel # "nil"
    THEN [from |-> "selector", err |-> "nil", queried |-> FALSE]
    ELSE LET def == IF region # "" THEN GetDefaultRegion(region) ELSE "empty"
             ask == AllUpDomainGroupEmpty(def)
             rd  == IF ask THEN query ELSE def
         IN IF ask /\ query = "error"
            THEN [from |-> "none", err |-> "QueryDomainsError", queried |-> TRUE]
            ELSE IF SelectUpDomainGroup(rd) = "empty"
            THEN [from |-> "none", err |-> "NoUpHostsError", queried |-> ask]
            ELSE [from |-> IF ask THEN "query" ELSE "region", err |-> "nil",
                  queried |-> ask]

getSelector(upHosts, sel, region, query) ==
    IF sel # "nil"
    THEN [from |-> "selector", err |-> "nil", queried |-> FALSE]
    ELSE IF upHosts > 0
    THEN [from |-> "list", err |-> "nil", queried |-> FALSE]
    ELSE LET def == IF region # "" THEN GetDefaultRegion(region) ELSE "empty"
             ask == AllUpDomainGroupEmpty(def)
             rd  == IF ask THEN query ELSE def
         IN IF ask /\ query = "error"
            THEN [from |-> "none", err |-> "QueryDomainsError", queried |-> TRUE]
            ELSE IF SelectUpDomainGroup(rd) = "empty"
            THEN [from |-> "none", err |-> "NoUpHostsError", queried |-> ask]
            ELSE [from |-> IF ask THEN "query" ELSE "region", err |-> "nil",
                  queried |-> ask]

\* the arguments of setupFields' call to getSelector
GSInit ==
    /\ gsIn \in [upHosts : 0..MaxHosts, sel : {"nil", "given"},
                 region : {"", "z0", "zz"},
                 query : {"error", "empty", "backupOnly", "main"}]
    /\ gsOut = NoSelection

GetSelector ==
    /\ gsOut = NoSelection
    /\ gsOut' = getSelector(gsIn.upHosts, gsIn.sel, gsIn.region, gsIn.query)
    /\ UNCHANGED <<gsIn, gsRest>>

GSNext == GetSelector

GSIdle ==
    /\ gsIn = [upHosts |-> 0, sel |-> "nil", region |-> "", query |-> "error"]
    /\ gsOut = NoSelection

(***************************************************************************)
(* Selector (service/kodo, with the selectors): the host with the fewest   *)
(* failures per second.  A frequency is a pair [n, d] standing for n / d;  *)
(* a positive n over d = 0 is the float +Inf.                              *)
(***************************************************************************)
KeptErrors == 10

SelHosts == 1..selN

\* host.setupError: append the failure, keep the last KeptErrors
setupError(es, t) ==
    LET all == Append(es, t)
    IN IF Len(all) > KeptErrors THEN Tail(all) ELSE all

\* host.errFrequency: len(errs) over the whole seconds from the first to the
\* last failure
errFrequency(es) ==
    IF Len(es) <= 0 THEN [n |-> 0, d |-> 1]
    ELSE [n |-> Len(es), d |-> (es[Len(es)] - es[1]) \div TicksPerSecond]

IsInf(f) == f.d = 0 /\ f.n > 0

\* math.MaxFloat64: above every finite frequency, not above +Inf
MaxFloat64 == [n |-> 1, d |-> 0]

\* freq < minfreq on float64
FreqLess(f, g) == ~IsInf(f) /\ (IsInf(g) \/ f.n * g.d < g.n * f.d)

\* the loop of Select over the hosts in the order the map yields them
RECURSIVE SelectLoop(_, _, _, _)
SelectLoop(order, i, minfreq, th) ==
    IF i > Len(order) THEN th
    ELSE LET freq == errFrequency(errs[order[i]])
         IN IF FreqLess(freq, minfreq)
            THEN SelectLoop(order, i + 1, freq, order[i])
            ELSE SelectLoop(order, i + 1, minfreq, th)

\* the orders in which a map of the hosts can be iterated
Orders ==
    { o \in [1..selN -> SelHosts] : \A i, j \in 1..selN : i # j => o[i] # o[j] }

\* NewSelector
SelInit ==
    /\ selN \in 1..MaxHosts
    /\ errs = [h \in 1..MaxHosts |-> <<>>]
    /\ now = 0
    /\ updates = 0
    /\ selected = 0

\* Selector.Update for a configured host
Update(h) ==
    /\ updates < MaxUpdates
    /\ errs' = [errs EXCEPT ![h] = setupError(errs[h], now)]
    /\ updates' = updates + 1
    /\ UNCHANGED <<selN, now, selected, selRest>>

\* Selector.Select: th stays nil when no host has a frequency below
\* math.MaxFloat64, and th.ht then dereferences nil
Select ==
    /\ \E o \in Orders :
         LET th == SelectLoop(o, 1, MaxFloat64, 0)
         IN selected' = IF th = 0 THEN -1 ELSE th
    /\ UNCHANGED <<selN, errs, now, updates, selRest>>

\* time passes
SelTick ==
    /\ now < MaxTicks
    /\ now' = now + 1
    /\ UNCHANGED <<selN, errs, updates, selected, selRest>>

SelNext ==
    \/ \E h \in SelHosts : Update(h)
    \/ Select
    \/ SelTick

SelIdle ==
    /\ selN = 1 /\ errs = [h \in 1..MaxHosts |-> <<>>] /\ now = 0
    /\ updates = 0 /\ selected = 0

(***************************************************************************)
(* credentials.Credentials (qiniu/credentials/credentials.go 140-230).     *)
(* Get reads the cache under the read lock and, when that is not enough,   *)
(* takes the write lock; what runs under one lock is one step.             *)
(***************************************************************************)
NoGot == [val |-> 0, err |-> "none"]

\* Value.IsEmpty
IsEmpty(v) == v = 0

\* Credentials that never trust what they hold.
isExpiredAlways(force, prov) == TRUE

\* Credentials.isExpired
isExpired(force, prov) == force \/ prov

\* NewCredentials
CredInit ==
    /\ credValue = 0
    /\ forceRefresh = TRUE
    /\ provExpired \in BOOLEAN
    /\ retrieves = 0
    /\ credPc = [t \in Threads |-> "idle"]
    /\ got = [t \in Threads |-> NoGot]
    /\ cached = FALSE
    /\ epoch = <<>>

\* Get, the part under the read lock (lines 177-184)
GetFast(t) ==
    /\ credPc[t] = "idle"
    /\ IF ~IsEmpty(credValue) /\ ~isExpired(forceRefresh, provExpired)
       THEN /\ got' = [got EXCEPT ![t] = [val |-> credValue, err |-> "nil"]]
            /\ cached' = TRUE
            /\ UNCHANGED credPc
       ELSE /\ credPc' = [credPc EXCEPT ![t] = "slow"]
            /\ UNCHANGED <<got, cached>>
    /\ UNCHANGED <<credValue, forceRefresh, provExpired, retrieves, epoch, credRest>>

\* Get, the part under the write lock (lines 188-200); Retrieve fails,
\* or returns a Value, which may be an empty one
GetSlow(t) ==
    /\ credPc[t] = "slow"
    /\ credPc' = [credPc EXCEPT ![t] = "idle"]
    /\ IF isExpired(forceRefresh, provExpired)
       THEN /\ retrieves < MaxRetrieves
            /\ retrieves' = retrieves + 1
            /\ \/ /\ got' = [got EXCEPT ![t] = [val |-> 0, err |-> "retrieve"]]
                  /\ epoch' = Append(epoch, "fail")
                  /\ UNCHANGED <<credValue, forceRefresh, provExpired, cached>>
               \/ \E v \in {0, retrieves'}, e \in BOOLEAN :
                     /\ credValue' = v
                     /\ forceRefresh' = FALSE
                     /\ provExpired' = e
                     /\ got' = [got EXCEPT ![t] = [val |-> v, err |-> "nil"]]
                     /\ cached' = TRUE
                     /\ epoch' = IF e THEN <<>> ELSE Append(epoch, "ok")
       ELSE /\ got' = [got EXCEPT ![t] = [val |-> credValue, err |-> "nil"]]
            /\ cached' = TRUE
            /\ UNCHANGED <<credValue, forceRefresh, provExpired, retrieves, epoch>>
    /\ UNCHANGED credRest

\* Credentials.Expire
Expire ==
    /\ ~forceRefresh
    /\ forceRefresh' = TRUE
    /\ cached' = FALSE
    /\ epoch' = <<>>
    /\ UNCHANGED <<credValue, provExpired, retrieves, credPc, got, credRest>>

\* the provider's credentials run out
ProviderExpires ==
    /\ ~provExpired
    /\ provExpired' = TRUE
    /\ epoch' = <<>>
    /\ UNCHANGED <<credValue, forceRefresh, retrieves, credPc, got, cached, credRest>>

CredNext ==
    \/ \E t \in Threads : GetFast(t)
    \/ \E t \in Threads : GetSlow(t)
    \/ Expire
    \/ ProviderExpires

CredIdle ==
    /\ credValue = 0 /\ forceRefresh = TRUE /\ provExpired = FALSE
    /\ retrieves = 0 /\ credPc = [t \in Threads |-> "idle"]
    /\ got = [t \in Threads |-> NoGot] /\ cached = FALSE /\ epoch = <<>>

(***************************************************************************)
(* BuildContentLengthHandler (qiniu/corehandlers/handlers.go 25-55).       *)
(* A header is absent, or holds text that ParseInt rejects, or a number.   *)
(***************************************************************************)
NoHeader == [present |-> FALSE, numeric |-> FALSE, val |-> 0]

Headers ==
    {NoHeader, [present |-> TRUE, numeric |-> FALSE, val |-> 0]}
    \cup { [present |-> TRUE, numeric |-> TRUE, val |-> v] :
             v \in (-1)..(MaxBodyLen + 1) }

\* strconv.ParseInt with its error dropped
ParseInt(h) == IF h.numeric THEN h.val ELSE 0

NoLength == [header |-> NoHeader, ContentLength |-> -1, err |-> "none"]

\* A handler that asks the body first and the header only without a body
\* length.
BuildContentLengthBodyFirst(h, hasBody, body, seekFails) ==
    LET fromBody == hasBody /\ SeekerLen(body) >= 0
        length == IF fromBody THEN SeekerLen(body)
                  ELSE IF h.present THEN ParseInt(h) ELSE 0
    IN IF hasBody /\ seekFails /\ body.seekable
       THEN [header |-> h, ContentLength |-> 0, err |-> ErrCodeSerialization]
       ELSE IF length > 0
       THEN [header |-> [present |-> TRUE, numeric |-> TRUE, val |-> length],
             ContentLength |-> length, err |-> "nil"]
       ELSE [header |-> NoHeader, ContentLength |-> 0, err |-> "nil"]

BuildContentLengthHandler(h, hasBody, body, seekFails) ==
    LET length == IF h.present THEN ParseInt(h)
                  ELSE IF hasBody THEN SeekerLen(body) ELSE 0
    IN IF ~h.present /\ hasBody /\ seekFails /\ body.seekable
       THEN [header |-> h, ContentLength |-> 0, err |-> ErrCodeSerialization]
       ELSE IF length > 0
       THEN [header |-> [present |-> TRUE, numeric |-> TRUE, val |-> length],
             ContentLength |-> length, err |-> "nil"]
       ELSE [header |-> NoHeader, ContentLength |-> 0, err |-> "nil"]

\* a request entering the Sign stage
CLInit ==
    /\ clIn \in [header : Headers, hasBody : BOOLEAN, body : Readers,
                 seekFails : BOOLEAN]
    /\ ~clIn.hasBody => (clIn.body = EmptyBuffer /\ ~clIn.seekFails)
    /\ clIn.seekFails => clIn.body.seekable
    /\ clOut = NoLength

RunContentLength ==
    /\ clOut = NoLength
    /\ clOut' = BuildContentLengthHandler(clIn.header, clIn.hasBody, clIn.body,
                                          clIn.seekFails)
    /\ UNCHANGED <<clIn, clRest>>

CLNext == RunContentLength

CLIdle ==
    /\ clIn = [header |-> NoHeader, hasBody |-> FALSE, body |-> EmptyBuffer,
               seekFails |-> FALSE]
    /\ clOut = NoLength

(***************************************************************************)
(* Handler lists (qiniu/request/handlers.go).  A HandlerList is a Go       *)
(* slice: a backing array in the heap and a length.  A handler has a name  *)
(* and a function that leaves the request alone ("ok") or sets its Error   *)
(* ("fail").                                                               *)
(***************************************************************************)
InitialCap == 5

HandlerNames == {"a", "b"}

NamedHandlers == [name : HandlerNames, fn : {"ok", "fail"}]

\* NamedHandler{}
NoHandler == [name |-> "", fn |-> "none"]

NilList == [arr |-> 0, len |-> 0]

\* len, cap and the elements of a slice
Cap(l, hp) == IF l.arr = 0 THEN 0 ELSE Len(hp[l.arr])

Contents(l, hp) == IF l.len = 0 THEN <<>> ELSE SubSeq(hp[l.arr], 1, l.len)

\* make([]NamedHandler, len(elems), c) holding elems
MakeArray(elems, c) ==
    [i \in 1..c |-> IF i <= Len(elems) THEN elems[i] ELSE NoHandler]

\* A copy that hands out the template's own slice.
copyAliased(l, hp) == [list |-> l, heap |-> hp]

\* HandlerList.copy: a new array of exactly len(l.list) elements
copy(l, hp) ==
    IF l.len = 0 THEN [list |-> NilList, heap |-> hp]
    ELSE [list |-> [arr |-> Len(hp) + 1, len |-> l.len],
          heap |-> Append(hp, MakeArray(Contents(l, hp), l.len))]

\* HandlerList.PushBackNamed: append writes in place while there is room
PushBackNamed(l, hp, n) ==
    IF Cap(l, hp) = 0
    THEN [list |-> [arr |-> Len(hp) + 1, len |-> 1],
          heap |-> Append(hp, MakeArray(<<n>>, InitialCap))]
    ELSE IF l.len < Cap(l, hp)
    THEN [list |-> [l EXCEPT !.len = l.len + 1],
          heap |-> [hp EXCEPT ![l.arr][l.len + 1] = n]]
    ELSE [list |-> [arr |-> Len(hp) + 1, len |-> l.len + 1],
          heap |-> Append(hp, MakeArray(Append(Contents(l, hp), n),
                                        2 * Cap(l, hp)))]

\* HandlerList.PushFrontNamed: a new array when the list is full, else a
\* shift inside the array
PushFrontNamed(l, hp, n) ==
    IF Cap(l, hp) = l.len
    THEN [list |-> [arr |-> Len(hp) + 1, len |-> l.len + 1],
          heap |-> Append(hp, MakeArray(<<n>> \o Contents(l, hp), l.len + 1))]
    ELSE [list |-> [l EXCEPT !.len = l.len + 1],
          heap |-> [hp EXCEPT ![l.arr] =
                      [i \in 1..Cap(l, hp) |->
                          IF i = 1 THEN n
                          ELSE IF i <= l.len + 1 THEN hp[l.arr][i - 1]
                          ELSE hp[l.arr][i]]]]

\* the handlers of a sequence whose name is not the given one
RECURSIVE Without(_, _)
Without(elems, name) ==
    IF elems = <<>> THEN <<>>
    ELSE IF Head(elems).name = name THEN Without(Tail(elems), name)
    ELSE <<Head(elems)>> \o Without(Tail(elems), name)

\* HandlerList.RemoveByName: the list is compacted inside its array
RemoveByName(l, hp, name) ==
    LET kept == Without(Contents(l, hp), name)
    IN IF l.len = 0 THEN [list |-> l, heap |-> hp]
       ELSE [list |-> [l EXCEPT !.len = Len(kept)],
             heap |-> [hp EXCEPT ![l.arr] =
                         [i \in 1..Cap(l, hp) |->
                             IF i <= Len(kept) THEN kept[i]
                             ELSE IF i <= l.len THEN NoHandler
                             ELSE hp[l.arr][i]]]]

\* HandlerList.SwapNamed: the function of every handler of that name is
\* replaced inside the array
SwapNamed(l, hp, n) ==
    IF l.len = 0 THEN [list |-> l, heap |-> hp]
    ELSE [list |-> l,
          heap |-> [hp EXCEPT ![l.arr] =
                      [i \in 1..Cap(l, hp) |->
                          IF i <= l.len /\ hp[l.arr][i].name = n.name
                          THEN [hp[l.arr][i] EXCEPT !.fn = n.fn]
                          ELSE hp[l.arr][i]]]]

\* A predicate that never stops the list.
HandlerListNeverStops(err) == TRUE

\* HandlerListStopOnError: go on while Request.Error is nil
HandlerListStopOnError(err) == ~err

\* HandlerListLogItem
HandlerListLogItem(err) == TRUE

\* Run, line 253: `l.AfterEachFn != nil && !l.AfterEachFn(item)` stops the list
Stops(after, err) ==
    CASE after = "nil" -> FALSE
      [] after = "log" -> ~HandlerListLogItem(err)
      [] OTHER -> ~HandlerListStopOnError(err)

\* the handler lists of up to MaxHandlers handlers
HandlerSeqs ==
    UNION { [1..n -> NamedHandlers] : n \in 0..MaxHandlers }

\* The client's template list, built by PushBackNamed calls (array of
\* InitialCap elements) or taken from a copy (array of len elements).
HInit ==
    /\ \E elems \in HandlerSeqs, c \in {0, InitialCap} :
         LET cp == IF c = 0 THEN Len(elems) ELSE c
         IN IF cp = 0
            THEN heap = <<>> /\ tmpl = NilList
            ELSE /\ heap = <<MakeArray(elems, cp)>>
                 /\ tmpl = [arr |-> 1, len |-> Len(elems)]
    /\ tmplAfter \in {"nil", "log", "stop"}
    /\ req = NilList
    /\ reqAfter = "nil"
    /\ hpc = "template"
    /\ hIdx = 0
    /\ ranged = NilList
    /\ called = <<>>
    /\ afterCalls = 0
    /\ hErr = FALSE
    /\ stopped = FALSE
    /\ mutations = 0
    /\ snapshot = <<>>

\* a handler is pushed to the back of the client's template list
TemplatePushBack ==
    /\ mutations < MaxMutations
    /\ \E n \in NamedHandlers :
         LET res == PushBackNamed(tmpl, heap, n)
         IN /\ tmpl' = res.list
            /\ heap' = res.heap
    /\ mutations' = mutations + 1
    /\ UNCHANGED <<tmplAfter, req, reqAfter, hpc, hIdx, ranged, called,
                   afterCalls, hErr, stopped, snapshot, hRest>>

\* a handler is pushed to the front of the client's template list
TemplatePushFront ==
    /\ mutations < MaxMutations
    /\ \E n \in NamedHandlers :
         LET res == PushFrontNamed(tmpl, heap, n)
         IN /\ tmpl' = res.list
            /\ heap' = res.heap
    /\ mutations' = mutations + 1
    /\ UNCHANGED <<tmplAfter, req, reqAfter, hpc, hIdx, ranged, called,
                   afterCalls, hErr, stopped, snapshot, hRest>>

\* the handlers of one name are removed from the client's template list
TemplateRemove ==
    /\ mutations < MaxMutations
    /\ \E name \in HandlerNames :
         LET res == RemoveByName(tmpl, heap, name)
         IN /\ tmpl' = res.list
            /\ heap' = res.heap
    /\ mutations' = mutations + 1
    /\ UNCHANGED <<tmplAfter, req, reqAfter, hpc, hIdx, ranged, called,
                   afterCalls, hErr, stopped, snapshot, hRest>>

\* the handlers of one name are swapped in the client's template list
TemplateSwap ==
    /\ mutations < MaxMutations
    /\ \E n \in NamedHandlers :
         LET res == SwapNamed(tmpl, heap, n)
         IN /\ tmpl' = res.list
            /\ heap' = res.heap
    /\ mutations' = mutations + 1
    /\ UNCHANGED <<tmplAfter, req, reqAfter, hpc, hIdx, ranged, called,
                   afterCalls, hErr, stopped, snapshot, hRest>>

\* request.New: Handlers: handlers.Copy(); Error holds the result of
\* parsing the URL
NewRequest ==
    /\ hpc = "template"
    /\ LET c == copy(tmpl, heap)
       IN /\ req' = c.list
          /\ heap' = c.heap
    /\ reqAfter' = tmplAfter
    /\ snapshot' = Contents(tmpl, heap)
    /\ hErr' \in BOOLEAN
    /\ hpc' = "ready"
    /\ UNCHANGED <<tmpl, tmplAfter, hIdx, ranged, called, afterCalls, stopped,
                   mutations, hRest>>

\* HandlerList.Run starts: `range l.list` takes the slice once
RunStart ==
    /\ hpc = "ready"
    /\ ranged' = req
    /\ hIdx' = 1
    /\ hpc' = IF req.len = 0 THEN "ran" ELSE "running"
    /\ UNCHANGED <<heap, tmpl, tmplAfter, req, reqAfter, called, afterCalls,
                   hErr, stopped, mutations, snapshot, hRest>>

\* one iteration of Run: the handler, then AfterEachFn
RunHandler ==
    /\ hpc = "running"
    /\ LET h == heap[ranged.arr][hIdx]
           err == hErr \/ h.fn = "fail"
           stop == Stops(reqAfter, err)
       IN /\ called' = Append(called, h)
          /\ hErr' = err
          /\ afterCalls' = afterCalls + (IF reqAfter = "nil" THEN 0 ELSE 1)
          /\ stopped' = stop
          /\ hpc' = IF stop \/ hIdx = ranged.len THEN "ran" ELSE "running"
          /\ hIdx' = hIdx + 1
    /\ UNCHANGED <<heap, tmpl, tmplAfter, req, reqAfter, ranged, mutations,
                   snapshot, hRest>>

HNext ==
    \/ TemplatePushBack
    \/ TemplatePushFront
    \/ TemplateRemove
    \/ TemplateSwap
    \/ NewRequest
    \/ RunStart
    \/ RunHandler

HIdle ==
    /\ heap = <<>> /\ tmpl = NilList /\ tmplAfter = "nil" /\ req = NilList
    /\ reqAfter = "nil" /\ hpc = "template" /\ hIdx = 0 /\ ranged = NilList
    /\ called = <<>> /\ afterCalls = 0 /\ hErr = FALSE /\ stopped = FALSE
    /\ mutations = 0 /\ snapshot = <<>>

(***************************************************************************)
(* Request signing (qiniu/credentials/credentials.go).  The body of the    *)
(* http.Request is the sequence of bytes still to be read from it.  The    *)
(* canonical string starts with the path, the query and (v2) the method,   *)
(* the host and the content type, which signing only reads; `data` below   *)
(* is the part of the canonical string taken from the body.                *)
(***************************************************************************)
ContentTypes == {"form", "json", "other"}

\* the bodies of up to MaxSignLen bytes
SignBodies == UNION { [1..n -> 0..1] : n \in 0..MaxSignLen }

\* incBody: the v1 scheme signs the body of a form request
incBody(hr) == hr.hasBody /\ hr.contentType = "form"

\* incBodyV2: the v2 scheme signs the body of a form or a JSON request
incBodyV2(hr) == hr.hasBody /\ hr.contentType \in {"form", "json"}

\* BytesFromRequest: nothing is read when ContentLength is 0, exactly
\* ContentLength bytes (io.ReadFull) when it is positive, everything
\* (ioutil.ReadAll) when it is negative.  [b, left, err]: the bytes
\* returned, the bytes left in the body, the error.
BytesFromRequest(hr) ==
    IF hr.ContentLength = 0
    THEN [b |-> <<>>, left |-> hr.body, err |-> "nil"]
    ELSE IF hr.ContentLength > 0
    THEN IF Len(hr.body) >= hr.ContentLength
         THEN [b |-> SubSeq(hr.body, 1, hr.ContentLength),
               left |-> SubSeq(hr.body, hr.ContentLength + 1, Len(hr.body)),
               err |-> "nil"]
         ELSE [b |-> hr.body, left |-> <<>>,
               err |-> IF hr.body = <<>> THEN "EOF" ELSE "ErrUnexpectedEOF"]
    ELSE [b |-> hr.body, left |-> <<>>, err |-> "nil"]

NoSign == [body |-> <<>>, data |-> <<>>, err |-> "none"]

\* collectData and collectDataV2 from `if incBody(req)` on: the bytes read
\* are put back as the body and appended to the canonical string
collect(inc, hr) ==
    IF inc
    THEN LET r == BytesFromRequest(hr)
         IN IF r.err # "nil"
            THEN [body |-> r.left, data |-> <<>>, err |-> r.err]
            ELSE [body |-> r.b, data |-> r.b, err |-> "nil"]
    ELSE [body |-> hr.body, data |-> <<>>, err |-> "nil"]

collectData(hr) == collect(incBody(hr), hr)

collectDataV2(hr) == collect(incBodyV2(hr), hr)

\* a request about to be signed
SGInit ==
    /\ sgIn \in [scheme : {"v1", "v2"}, hasBody : BOOLEAN,
                 contentType : ContentTypes,
                 ContentLength : (-1)..(MaxSignLen + 1), body : SignBodies]
    /\ ~sgIn.hasBody => sgIn.body = <<>>
    /\ sgOut = NoSign

\* Value.SignRequest
SignRequest ==
    /\ sgOut = NoSign
    /\ sgIn.scheme = "v1"
    /\ sgOut' = collectData(sgIn)
    /\ UNCHANGED <<sgIn, sgRest>>

\* Value.SignRequestV2
SignRequestV2 ==
    /\ sgOut = NoSign
    /\ sgIn.scheme = "v2"
    /\ sgOut' = collectDataV2(sgIn)
    /\ UNCHANGED <<sgIn, sgRest>>

SGNext == SignRequest \/ SignRequestV2

SGIdle ==
    /\ sgIn = [scheme |-> "v1", hasBody |-> FALSE, contentType |-> "other",
               ContentLength |-> 0, body |-> <<>>]
    /\ sgOut = NoSign

\* the components outside the request pipeline and the upload engine, at rest
OtherIdle == RRIdle /\ GSIdle /\ SelIdle /\ CredIdle /\ CLIdle /\ HIdle /\ SGIdle

(***************************************************************************)
(* Specifications.                                                         *)
(***************************************************************************)
\* the upload engine at rest
UploadIdle ==
    /\ upc = "idle" /\ uploads = 0 /\ viaContext = FALSE /\ srcSize = 0 /\ srcModTime = 1 /\ srcSeekable = TRUE
    /\ fileSource = FALSE /\ srcPos = 0 /\ disableResume = FALSE
    /\ cfgStoreNumber = 0 /\ Concurrency = 0 /\ sidecar = NoSidecar
    /\ clock = 1 /\ UploadID = 0 /\ Parts = <<>> /\ LastModification = 0
    /\ readPos = 0 /\ lastIndex = 0 /\ uerr = "nil" /\ statusCode = 0
    /\ limitC = 0 /\ wg = 0 /\ tasks = {} /\ cur = NoPart /\ eof = FALSE
    /\ uctxDone = FALSE /\ nextID = 0 /\ completeSent = FALSE
    /\ completeParts = <<>> /\ result = NoResult

\* no request under way
SendIdle ==
    /\ pc = "new" /\ Error = NilErr /\ Retryable = "nil" /\ RetryCount = 0
    /\ maxRetries = 0 /\ enforce = FALSE /\ capture = FALSE
    /\ HTTPResponse = NoResponse /\ built = FALSE /\ method = "POST"
    /\ Body = EmptyBuffer /\ BodyStart = 0 /\ httpBody = "NoBody"
    /\ ctxDone = FALSE /\ timerFired = FALSE /\ rt = NoTransport
    /\ retErr = NilErr /\ attempts = 0 /\ completeRuns = 0 /\ lastErr = NilErr
    /\ cancelAt = "none" /\ setOffset = 0 /\ prevRead = 0 /\ httpStart = 0
    /\ validateRuns = 0 /\ buildRuns = 0 /\ tokenType = "none" /\ authValues = 0

Init == SendInit /\ UploadIdle /\ OtherIdle

Next == SendNext

Spec == Init /\ [][Next]_vars

InitUpload == UploadInit /\ SendIdle /\ OtherIdle

SpecUpload == InitUpload /\ [][UploadNext]_vars

\* The goroutine of upload and the requests of the parts keep running: a
\* step of the loop, of a part or of the join that stays possible is taken.
SpecUploadFair ==
    /\ SpecUpload
    /\ WF_vars(DispatchPart)
    /\ WF_vars(PartRequestFails \/ PartSendFails \/ PartSendOk)
    /\ WF_vars(Join)

InitRoundRobin == RRInit /\ SendIdle /\ UploadIdle /\ GSIdle /\ SelIdle /\ CredIdle /\ CLIdle /\ HIdle /\ SGIdle

SpecRoundRobin == InitRoundRobin /\ [][RRNext]_vars

InitGetSelector == GSInit /\ SendIdle /\ UploadIdle /\ RRIdle /\ SelIdle /\ CredIdle /\ CLIdle /\ HIdle /\ SGIdle

InitSelector == SelInit /\ SendIdle /\ UploadIdle /\ RRIdle /\ GSIdle /\ CredIdle /\ CLIdle /\ HIdle /\ SGIdle

InitCredentials == CredInit /\ SendIdle /\ UploadIdle /\ RRIdle /\ GSIdle /\ SelIdle /\ CLIdle /\ HIdle /\ SGIdle

InitContentLength ==
    CLInit /\ SendIdle /\ UploadIdle /\ RRIdle /\ GSIdle /\ SelIdle /\ CredIdle /\ HIdle /\ SGIdle

InitHandlers ==
    HInit /\ SendIdle /\ UploadIdle /\ RRIdle /\ GSIdle /\ SelIdle /\ CredIdle /\ CLIdle /\ SGIdle

SpecContentLength == InitContentLength /\ [][CLNext]_vars

SpecHandlers == InitHandlers /\ [][HNext]_vars

SpecCredentials == InitCredentials /\ [][CredNext]_vars

SpecSelector == InitSelector /\ [][SelNext]_vars

SpecGetSelector == InitGetSelector /\ [][GSNext]_vars

InitSign ==
    SGInit /\ SendIdle /\ UploadIdle /\ RRIdle /\ GSIdle /\ SelIdle /\ CredIdle /\ CLIdle /\ HIdle

SpecSign == InitSign /\ [][SGNext]_vars

\* Every thread that can take a step takes it, and sync.Mutex hands the
\* mutex to a waiter that finds it free again and again (starvation mode).
SpecRoundRobinFair ==
    /\ SpecRoundRobin
    /\ \A t \in Threads :
         /\ SF_vars(Lock(t))
         /\ WF_vars(SelectCallsIsEOF(t) \/ IsEOFReturn(t))

(***************************************************************************)
(* Properties of the request pipeline (specification Spec).                *)
(***************************************************************************)

\* C1: a Send makes at most MaxRetries + 1 attempts and RetryCount never
\* exceeds MaxRetries; when the cap is reached the error of the last attempt
\* is the error Send returns; with max-retries = 1 a Send whose attempts all
\* failed with a retryable error, and whose body can be sent again, made
\* exactly one additional attempt.
C1_RetryCap ==
    /\ attempts <= maxRetries + 1
    /\ RetryCount <= maxRetries
    /\ (Finished /\ attempts = maxRetries + 1 /\ lastErr # NilErr)
          => retErr = lastErr
    /\ (Finished /\ maxRetries = 1 /\ retErr = lastErr
          /\ IsErrorRetryable(lastErr) /\ shouldRetryCancel(lastErr)
          /\ (Body.seekable \/ httpBody = "NoBody"))
          => attempts = 2

C1_Witness ==
    /\ pc = "done"
    /\ maxRetries = 1
    /\ attempts = 2
    /\ RetryCount = 1
    /\ retErr = lastErr
    /\ retErr.code = "RequestError"

\* C2: when an attempt ends with an error whose code is not retryable and
\* that has no retryable cause, Send returns that error at once: no sleep,
\* no further attempt, RetryCount unchanged.
C2_NoRetryOfNonRetryable ==
    [][(pc = "classify" /\ pc' # "classify" /\ lastErr' # NilErr
          /\ ~IsErrorRetryable(lastErr'))
       => (Finished' /\ retErr' = lastErr' /\ RetryCount' = RetryCount
           /\ attempts' = attempts)]_vars

\* C3: when the round trip fails and the context is cancelled, the error is
\* RequestCanceled with retryable = false and Send returns it without another
\* attempt.
C3_CancelDuringRoundTrip ==
    [][(pc = "classify" /\ rt.kind = "err" /\ ctxDone)
       => (/\ Error'.code = ErrCodeCanceled
           /\ Retryable' = "false"
           /\ Finished'
           /\ retErr' = Error'
           /\ attempts' = attempts
           /\ RetryCount' = RetryCount)]_vars

C3_Witness ==
    /\ Finished
    /\ cancelAt = "roundtrip"
    /\ rt.kind = "err"
    /\ retErr.code = ErrCodeCanceled
    /\ Retryable = "false"
    /\ RetryCount < maxRetries
    /\ attempts = RetryCount + 1

\* C4: when the context is cancelled while the retry handler sleeps, the
\* sleep ends with Send returning RequestCanceled, RetryCount not incremented
\* and no attempt added.
C4_CancelDuringSleep ==
    [][(pc = "sleep" /\ ctxDone /\ ~timerFired /\ pc' # "sleep")
       => (/\ Finished'
           /\ retErr'.code = ErrCodeCanceled
           /\ RetryCount' = RetryCount
           /\ attempts' = attempts)]_vars

C4_Witness ==
    /\ Finished
    /\ cancelAt = "sleep"
    /\ ~timerFired
    /\ retErr.code = ErrCodeCanceled
    /\ RetryCount = 0
    /\ attempts = 1
    /\ maxRetries >= 1

\* C5: for a seekable body, the HTTP body of every attempt begins at the
\* start offset recorded when the body was set, wherever the previous
\* attempt stopped reading.
C5_BodyRewound ==
    (pc = "roundtrip" /\ Body.seekable)
       => (httpStart = BodyStart /\ BodyStart = setOffset)

C5_Witness ==
    /\ pc = "roundtrip"
    /\ Body.seekable
    /\ RetryCount >= 1
    /\ httpBody = "safeBody"
    /\ BodyStart = 1
    /\ prevRead > BodyStart
    /\ httpStart = BodyStart

\* C6: with a body that is not seekable and a non-empty HTTP body, WillRetry
\* is false even for a retryable error below the retry cap, and the request
\* is never retried.
C6_UnseekableNeverRetried ==
    (~Body.seekable /\ httpBody # "NoBody")
       => (/\ ~WillRetry(Body, httpBody, NewErr("RequestError", "temp"),
                         "true", 0, maxRetries + 1)
           /\ pc # "sleep"
           /\ RetryCount = 0
           /\ attempts <= 1)

C6_Witness ==
    /\ pc = "done"
    /\ ~Body.seekable
    /\ httpBody = "safeBody"
    /\ maxRetries >= 1
    /\ attempts = 1
    /\ retErr = NewErr("RequestError", "temp")
    /\ Retryable = "true"

\* the mapping table of the specification, section 4.4
SpecMapping(status) ==
    CASE status = 298 -> "PartError"
      [] status = 400 -> "ParamsError"
      [] status = 401 -> "AuthorizationError"
      [] status = 403 -> "AccessDeniedError"
      [] status = 404 -> "NotFoundError"
      [] status = 405 -> "UnexpectedRequestError"
      [] status = 406 -> "Crc32VerificationError"
      [] status = 419 -> "AccountFrozenError"
      [] status = 478 -> "MirrorSourceError"
      [] status = 503 -> "ServiceUnavailableError"
      [] status = 504 -> "ServiceTimeoutError"
      [] status = 573 -> "RequestRateError"
      [] status = 579 -> "UploadCallbackError"
      [] status = 599 -> "ServiceOperationError"
      [] status = 608 -> "ContentChangedError"
      [] status = 612 -> "ResourceNotExistError"
      [] status = 614 -> "ResourceExistError"
      [] OTHER -> "UnknownError"

\* C7: for a response with one of the statuses of the mapping table the
\* error code set by response validation is the code of the table; any
\* other failing status gives UnknownError.
C7_StatusMapping ==
    [][(pc = "classify" /\ pc' # "classify" /\ rt.kind # "err"
          /\ (rt.status \in MappedStatuses \/ IsFailureStatus(rt.status)))
       => lastErr'.code = SpecMapping(rt.status)]_vars

\* C8: Send runs the Complete stage exactly once, as its last step, on every
\* exit path, and the response body of the last attempt is closed after it.
C8_CompleteOnce ==
    /\ Finished => (completeRuns = 1
                    /\ (HTTPResponse.present => HTTPResponse.closed))
    /\ ~Finished => completeRuns = 0

C8_Witness ==
    /\ pc = "done"
    /\ completeRuns = 1
    /\ RetryCount >= 1
    /\ HTTPResponse.present
    /\ HTTPResponse.closed
    /\ retErr # NilErr

(***************************************************************************)
(* Properties of the multipart upload (specification SpecUpload).          *)
(***************************************************************************)

\* C9: the parts list of the Complete request is sorted by part number
\* ascending and holds no part number twice, also for an upload resumed from
\* a sidecar or restarted after a rejected resume record.
C9_CompletePartsSorted ==
    completeSent =>
        \A i \in 1..(Len(completeParts) - 1) :
            completeParts[i].Index < completeParts[i + 1].Index

\* C10: at every moment of a multipart upload the number of part uploads in
\* flight is at most the concurrency of the upload, which is 5 when
\* UploadMultipart is given none.
C10_InFlightBound ==
    /\ Cardinality(tasks) <= Concurrency
    /\ limitC <= Concurrency
    /\ (uploads > 0 /\ ~viaContext)
          => Concurrency \in (1..MaxConcurrency) \cup {DefaultUploadConcurrency}

C10_Witness ==
    /\ upc = "part"
    /\ Cardinality(tasks) = 1
    /\ limitC = 1
    /\ Concurrency = 1
    /\ lastIndex = 2

\* C11: a source of n > 0 bytes is split into ceil(n / partSize) parts; every
\* part carries the bytes read for it, partSize of them unless it is the
\* last, whether or not the size of the source is known in advance.  Stated
\* for an upload that starts at the beginning of the source.
C11_PartSplit ==
    /\ (upc = "dispatch" /\ uploads = 1)
          => (/\ cur.read > 0
              /\ cur.size = cur.read
              /\ cur.index = (srcPos + PartSize - 1) \div PartSize
              /\ (cur.read = PartSize \/ srcPos = srcSize))
    /\ (upc = "complete" /\ uploads = 1)
          => lastIndex = (srcSize + PartSize - 1) \div PartSize

\* C12: the Complete request is sent only after every part read from the
\* source was uploaded successfully; when a part upload or a read of the
\* source failed, or the upload was cancelled, no Complete request is sent
\* and the upload ends with an error.
C12_CompleteAfterAllParts ==
    /\ completeSent
          => (/\ uerr = "nil"
              /\ ~uctxDone
              /\ eof
              /\ tasks = {}
              /\ wg = 0
              /\ Len(Parts) >= lastIndex)
    /\ (upc = "done" /\ (uerr # "nil" \/ uctxDone))
          => (~completeSent /\ result.err \notin {"none", "nil"})

\* C13: after a multipart upload that returned success no resume sidecar
\* remains.
C13_NoSidecarAfterSuccess ==
    result.err = "nil" => ~sidecar.exists

C13_Witness ==
    /\ upc = "done"
    /\ result.err = "nil"
    /\ ~disableResume
    /\ StoreNumber = 1
    /\ Len(completeParts) >= 1
    /\ ~sidecar.exists

\* C14: when the Complete request fails the resume sidecar is left in place.
C14_SidecarKeptOnCompleteError ==
    [][(upc = "complete" /\ sidecar.exists /\ result'.err = "completeError")
       => sidecar' = sidecar]_vars

C16_ResumeMissingParts ==
    [][(upc = "done" /\ upc' = "init" /\ uerr # "nil" /\ fileSource
          /\ ~disableResume /\ sidecar.exists /\ srcModTime <= sidecar.mtime)
       => (/\ UploadID' = sidecar.uploadID
           /\ Parts' = sidecar.parts
           /\ lastIndex' = Len(sidecar.parts)
           /\ readPos' = Min(srcSize, PartSize * Len(sidecar.parts))
           /\ srcPos' = readPos')]_vars

\* C17: a record whose last_modification differs from the modification time
\* of the source file is rejected and the upload starts over with a new
\* session.
C17_RejectedWhenSourceModified ==
    [][(upc \in {"idle", "done"} /\ upc' = "init" /\ fileSource
          /\ ~disableResume /\ sidecar.exists
          /\ srcModTime # sidecar.lastMod)
       => (UploadID' = 0 /\ lastIndex' = 0 /\ readPos' = 0)]_vars

\* C18: a multipart upload that fails after its session was initialised
\* returns a MultiUploadFailure (upload id, error code, status, request id),
\* whatever failed: a part upload, a read of the source, a cancellation or
\* the Complete request.
C18_FailureCarriesUploadID ==
    (upc = "done" /\ UploadID # 0 /\ result.err \notin {"none", "nil"})
       => result.multi

C20_NotRetriedStatuses ==
    [][(/\ pc = "classify" /\ pc' # "classify"
        /\ rt.kind = "resp" /\ rt.status \in {501, 429, 503})
          => (/\ pc' # "sleep"
              /\ Retryable' # "true"
              /\ RetryCount' = RetryCount
              /\ retErr' # NilErr)]_vars

C20_Witness ==
    /\ Finished
    /\ rt.kind = "resp"
    /\ rt.status = 429
    /\ maxRetries >= 1
    /\ RetryCount = 0
    /\ attempts = 1
    /\ Retryable = "false"
    /\ retErr # NilErr

(***************************************************************************)
(* Kodo.UploadForm (service/kodo/upload_form.go 342-354): the request      *)
(* carries the capturing options, is sent, and the error of Send goes      *)
(* through errRequestError together with the captured status code.         *)
(***************************************************************************)
\* the status code stored by the handler of WithGetResponseStatusCode
CapturedStatus == IF capture /\ pc = "done" THEN HTTPResponse.status ELSE 0

\* errRequestError: the error wrapped into a RequestFailure; an error that
\* is not a qerr.Error, the nil error included, becomes a new RequestError.
errRequestError(err, sc) ==
    IF sc <= 0 THEN err
    ELSE IF err = NilErr THEN NewErr("RequestError", "nil")
    ELSE err

\* what UploadForm returns once Send has returned
UploadForm == errRequestError(retErr, CapturedStatus)

\* C21: when the server accepts a form upload (a 2xx response that
\* unmarshals cleanly, Send returning nil), UploadForm returns a nil error.
C21_UploadFormNilOnSuccess ==
    (/\ pc = "done" /\ capture
     /\ rt.kind = "resp" /\ rt.status \in 200..299 /\ ~rt.badJSON
     /\ retErr = NilErr)
       => UploadForm = NilErr

(***************************************************************************)
(* Properties of the host selectors.                                       *)
(***************************************************************************)

\* C22: RoundRobinSelector.Select may be called by several threads at once
\* and every call returns: a thread that has entered Select eventually
\* leaves it with a host (none blocks forever).
C22_SelectReturns ==
    \A t \in Threads :
        (rrPc[t] = "selectLock") ~> (rrPc[t] = "idle" /\ rrOut # <<>>)

\* C25 as stated: an explicit host list wins over an explicit selector,
\* which wins over the known region defaults, which win over the result of
\* the v3/query lookup.
C25_ListBeforeSelector ==
    gsOut # NoSelection =>
        /\ gsIn.upHosts > 0 => gsOut.from = "list"
        /\ (gsIn.upHosts = 0 /\ gsIn.sel # "nil") => gsOut.from = "selector"
        /\ (gsIn.upHosts = 0 /\ gsIn.sel = "nil" /\ gsIn.region \in KnownRegions)
              => (gsOut.from = "region" /\ ~gsOut.queried)

\* C25 (amended): an explicit selector wins over an explicit host list,
\* which wins over the known region defaults, which win over the result of
\* the v3/query lookup; the lookup is made only when the three others are
\* absent.
C25_SelectorPriority ==
    gsOut # NoSelection =>
        /\ gsIn.sel # "nil" => gsOut.from = "selector"
        /\ (gsIn.sel = "nil" /\ gsIn.upHosts > 0) => gsOut.from = "list"
        /\ (gsIn.sel = "nil" /\ gsIn.upHosts = 0 /\ gsIn.region \in KnownRegions)
              => gsOut.from = "region"
        /\ gsOut.from = "query" => gsIn.query = "main"
        /\ gsOut.queried <=> (/\ gsIn.sel = "nil" /\ gsIn.upHosts = 0
                              /\ gsIn.region \notin KnownRegions)

C25_Witness ==
    /\ gsIn.sel = "given"
    /\ gsIn.upHosts > 0
    /\ gsIn.region = "z0"
    /\ gsOut.from = "selector"

\* C23: Selector.Select returns a configured host whose failure frequency
\* is minimal among the configured hosts.
C23_SelectMinFrequency ==
    selected # 0 =>
        /\ selected \in SelHosts
        /\ \A h \in SelHosts :
             ~FreqLess(errFrequency(errs[h]), errFrequency(errs[selected]))

(***************************************************************************)
(* Properties of the credentials cache (specification SpecCredentials).    *)
(***************************************************************************)

\* C24: once a Get has succeeded, a Get that runs while Expire has not been
\* called since and the provider does not report IsExpired returns the
\* cached Value with a nil error, without a call of Retrieve and without a
\* change of the cache.
C24_CachedUntilExpired ==
    [][(cached /\ ~provExpired)
          => (/\ retrieves' = retrieves
              /\ credValue' = credValue
              /\ \A t \in Threads :
                    got'[t] # got[t]
                       => got'[t] = [val |-> credValue, err |-> "nil"])]_vars

C24_Witness ==
    /\ retrieves = 1
    /\ credValue = 1
    /\ cached
    /\ ~provExpired
    /\ \A t \in Threads : got[t] = [val |-> 1, err |-> "nil"]

(***************************************************************************)
(* Properties of the content length handler (SpecContentLength).           *)
(***************************************************************************)

C29_BuiltOnce ==
    /\ [](validateRuns <= 1 /\ buildRuns <= 1)
    /\ [](built => (validateRuns = 1 /\ buildRuns = 1))
    /\ [][built => (/\ built'
                    /\ validateRuns' = validateRuns
                    /\ buildRuns' = buildRuns)]_vars

C29_Witness ==
    /\ pc = "done"
    /\ built
    /\ attempts = 3
    /\ validateRuns = 1
    /\ buildRuns = 1

(***************************************************************************)
(* Properties of the handler lists (specification SpecHandlers).           *)
(***************************************************************************)

\* C27: Run calls the handlers in list order and AfterEachFn after each
\* one; once AfterEachFn has returned false no later handler of the list is
\* called, and with HandlerListStopOnError no handler runs after one that
\* set the request's Error.
C27_RunInOrderUntilStopped ==
    /\ [](/\ Len(called) <= req.len
          /\ \A i \in 1..Len(called) : called[i] = Contents(req, heap)[i]
          /\ (reqAfter # "nil") => afterCalls = Len(called)
          /\ (hpc = "ran" /\ ~stopped) => Len(called) = req.len
          /\ (reqAfter = "stop")
                => \A i \in 1..(Len(called) - 1) : called[i].fn = "ok")
    /\ [][stopped => called' = called]_vars

C27_Witness ==
    /\ hpc = "ran"
    /\ reqAfter = "stop"
    /\ stopped
    /\ req.len = 2
    /\ Len(called) = 1
    /\ called[1].fn = "fail"
    /\ afterCalls = 1

\* C28: a Request runs its own copy of the handler set: pushing, removing
\* or swapping handlers on the client's template after the Request was
\* created changes neither the list of the Request nor the handlers it runs.
C28_RequestOwnsItsHandlers ==
    (hpc # "template") =>
        /\ Contents(req, heap) = snapshot
        /\ Len(called) <= Len(snapshot)
        /\ \A i \in 1..Len(called) : called[i] = snapshot[i]
        /\ (hpc = "ran" /\ ~stopped) => called = snapshot

C28_Witness ==
    /\ hpc = "ran"
    /\ mutations = 2
    /\ Len(snapshot) = 2
    /\ called = snapshot
    /\ tmpl.len = 2
    /\ \A i \in 1..2 : Contents(tmpl, heap)[i] # snapshot[i]

(***************************************************************************)
(* Scheduling of the parts (specification SpecUpload).                     *)
(***************************************************************************)

\* C30: every in-flight part runs as a task of its own, so that with a
\* concurrency above 1 part uploads overlap: while a part is in flight, a
\* slot of limitC is free, the source has bytes left and the loop of upload
\* has neither an error nor the end of the source, upload can go on to read
\* and dispatch the next part.
C30_PartsOverlap ==
    (/\ tasks # {}
     /\ limitC < Concurrency
     /\ srcPos < srcSize
     /\ LoopCondition)
        => ENABLED (NextPart \/ DispatchPart)

\* C31: a multipart upload does not return to its caller while a part task
\* it started is still running, also when a part has failed or the context
\* was cancelled: the step that returns from upload is taken with no task
\* running and the WaitGroup at zero.
C31_ReturnsAfterAllTasks ==
    /\ [](upc = "done" => (tasks = {} /\ wg = 0))
    /\ [][(upc # "done" /\ upc' = "done") => (tasks = {} /\ wg = 0)]_vars

C31_Witness ==
    /\ upc = "done"
    /\ uerr = "canceled"
    /\ uctxDone
    /\ lastIndex = 1
    /\ srcSize > PartSize
    /\ result.err = "canceled"
    /\ tasks = {}

\* C32: once the context of the upload was cancelled or a part upload has
\* failed, the loop of upload issues no new part upload: from the head of
\* the loop it does not go on to read and dispatch another part.
C32_NoNewPartAfterCancel ==
    [][((uctxDone \/ uerr # "nil") /\ upc = "loop") => upc' # "dispatch"]_vars

\* C33: within one upload the i-th part read from the source carries index
\* i, counted from 1: the part whose bytes end at offset srcPos of the source
\* is part ceil(srcPos / PartSize).  Distinct parts then carry distinct
\* indexes, the offset growing with every part read.
C33_IndexIsReadOrder ==
    (upc = "dispatch") =>
        /\ cur.index = (srcPos + PartSize - 1) \div PartSize
        /\ cur.index = lastIndex
        /\ \A t \in tasks : t.index < cur.index

\* C34: when the resume record is rejected the upload starts over from a
\* clean state: no upload id, an empty part manifest, read position 0 and
\* next part index 1.
C34_CleanRestart ==
    [][(/\ upc # "init" /\ upc' = "init"
        /\ ~disableResume /\ fileSource
        /\ sidecar.exists /\ ~RecoveryOk(sidecar))
          => (/\ UploadID' = 0
              /\ Parts' = <<>>
              /\ readPos' = 0
              /\ lastIndex' = 0)]_vars

(***************************************************************************)
(* Properties of request signing (specification SpecSign).                 *)
(***************************************************************************)

\* C35: after a request is signed with the v1 or the v2 scheme, reading its
\* body yields exactly the bytes it held before signing, and the bytes taken
\* into the canonical string are the bytes the body then holds.
C35_BodyRestored ==
    (sgOut.err = "nil") =>
        /\ sgOut.body = sgIn.body
        /\ (sgOut.data # <<>>) => sgOut.data = sgOut.body

\* C36: every attempt of a signed request, the first and each retry, is
\* sent with exactly one value of the Authorization header; retries do not
\* accumulate further values.
C36_OneAuthorizationValue ==
    (pc = "roundtrip" /\ tokenType # "none") => authValues = 1

\* C37: when Send exits before any HTTP response exists (an error already
\* set on the request, or a Validate, Build or Sign failure) it returns its
\* error normally, also for a request that carries the options capturing
\* the response header and status code.
C37_EarlyExitReturns ==
    (Finished /\ ~HTTPResponse.present) => (pc = "done" /\ retErr # NilErr)

C39_RetrieveOnce ==
    /\ [](Len(epoch) <= 1)
    /\ [][\A t \in Threads :
            got'[t] # got[t] => got'[t] = [val |-> credValue', err |-> "nil"]]_vars

\* C39 (amended): once a Retrieve has succeeded, no caller calls Retrieve
\* again while the credentials are not expired anew, and every caller that
\* returns from then on receives the retrieved value; a Retrieve that fails
\* hands its error to its own caller, and the next caller calls Retrieve
\* again.
C39_RetrieveOnceWhenOk ==
    /\ [](\A i \in 1..Len(epoch) : epoch[i] = "ok" => i = Len(epoch))
    /\ [][\A t \in Threads :
            got'[t] # got[t] =>
               \/ got'[t] = [val |-> credValue', err |-> "nil"]
               \/ /\ got'[t] = [val |-> 0, err |-> "retrieve"]
                  /\ retrieves' = retrieves + 1
                  /\ epoch' = Append(epoch, "fail")]_vars

C39_Witness ==
    /\ epoch = <<"fail", "ok">>
    /\ retrieves = 2
    /\ credValue = 2
    /\ got[1] = [val |-> 0, err |-> "retrieve"]
    /\ got[2] = [val |-> 2, err |-> "nil"]
    /\ got[3] = [val |-> 2, err |-> "nil"]
    /\ \A t \in Threads : credPc[t] = "idle"

(***************************************************************************)
(* Select never fails (specification SpecSelector).                        *)
(***************************************************************************)

\* C40: for every non-empty set of hosts and every sequence of Update calls,
\* a host with a single recorded failure or with several failures within one
\* second included, Select returns one of the configured hosts.
C40_SelectReturnsHost ==
    [][selected' # selected => selected' \in SelHosts]_vars

====
